---- MODULE Spec2Model ----
(***************************************************************************)
(* A model of youtube_snowball.py: the record store, the video expander    *)
(* (get_recommendations), the channel expansion (scrap_the_channel,        *)
(* getChannelToCountFromUploads, scrap_the_video) and the snowball loop of *)
(* scrap_from_base.  Python dictionaries whose iteration order the code    *)
(* relies on are sequences of entries in insertion order; the others are   *)
(* functions whose DOMAIN is the set of keys.                              *)
(***************************************************************************)
EXTENDS Integers, Sequences, FiniteSets, TLC

\* ------------------------------------------------------------------------
\* Program constants
\* ------------------------------------------------------------------------
REQUIRED_RECOS == 10
ESTIMATED_RECOS_PER_VIDEO == 15
ENOUGH_RECOS == 50
\* the metadata API takes at most this many ids in one call
API_BATCH == 50
\* scrap_from_base saves once more than this many API videos are new
SAVE_EVERY == 100
\* get_recommendations reads the first result and results 1..19 of a page
RECOS_PER_PAGE == 20
\* "if len(names) < 25": the channels listed by name in the channel-share file
TOP_CHANNELS == 25

\* ------------------------------------------------------------------------
\* Bounds of the model
\* ------------------------------------------------------------------------
\* the backend fails a call of try_to_do at most MaxFailures times
MaxFailures == 3
\* max_channels ranges over 0..MaxChannels
MaxChannels == 3
\* the expander harness calls get_recommendations at most MaxCalls times per video
MaxCalls == 2
\* the saver harness runs save_videos at most MaxSaves times
MaxSaves == 2
\* and has the process killed at most MaxCrashes times
MaxCrashes == 1
\* the channel harness calls scrap_the_channel at most MaxChannelCalls times
MaxChannelCalls == 3
\* compute_recent_views is called with dayz in 1..MaxDayz
MaxDayz == 3

\* ------------------------------------------------------------------------
\* The universe: channel ids, video ids, who owns what
\* ------------------------------------------------------------------------
ChannelIds == {"chanX", "chanY", "chanZ", "chanW", "chanF"}

XVideos == {"x0", "x1", "x2", "x3", "x4", "x5"}
YVideos == {"y1", "y2"}
ZVideos == {"z1", "z2", "z3"}
WVideos == {"w1", "w2", "w3"}
Fillers == <<"f01", "f02", "f03", "f04", "f05", "f06", "f07", "f08", "f09",
             "f10", "f11", "f12", "f13", "f14", "f15", "f16", "f17">>
FVideos == {Fillers[i] : i \in 1..Len(Fillers)}

\* Video ids in bulk, b1, b2, ...: enough of them for a run to scrap and to
\* resolve more than SAVE_EVERY videos.
Bulk == [i \in 1..135 |-> "b" \o ToString(i)]
BulkVideos == {Bulk[i] : i \in 1..Len(Bulk)}
\* The n bulk ids from the a-th on, in order.
Block(a, n) == [k \in 1..n |-> Bulk[a + k - 1]]
BulkX == {Bulk[i] : i \in 1..34}
BulkY == {Bulk[i] : i \in 35..68}
BulkZ == {Bulk[i] : i \in 69..102}

Videos == XVideos \cup YVideos \cup ZVideos \cup WVideos \cup FVideos \cup BulkVideos

\* The channel a video belongs to, as the platform reports it.
OwnerOf(v) ==
  IF v \in XVideos \cup BulkX THEN "chanX"
  ELSE IF v \in YVideos \cup BulkY THEN "chanY"
  ELSE IF v \in ZVideos \cup BulkZ THEN "chanZ"
  ELSE IF v \in WVideos \cup BulkVideos THEN "chanW"
  ELSE "chanF"

\* The display title of a channel: what the watch page shows as the owner.
PlainTitles ==
  [c \in ChannelIds |->
     CASE c = "chanX" -> "X News"
       [] c = "chanY" -> "Y Daily"
       [] c = "chanZ" -> "Z Live"
       [] c = "chanW" -> "W Talk"
       [] OTHER       -> "F Clips"]

\* A channel may also be titled with the very text of its id.
IdTitledZ == [PlainTitles EXCEPT !["chanZ"] = "chanZ"]

NoRecos == [v \in Videos |-> <<>>]
NoFeatured == [c \in ChannelIds |-> {}]

\* ------------------------------------------------------------------------
\* Worlds: what the platform answers during one run.
\*   uploads[c]    the channel's uploads playlist, newest first
\*   noProfile     channels whose profile query has no items
\*   noPlaylist    channels whose uploads playlist cannot be found
\*   featured[c]   the channels c features
\*   recos[v]      the recommendations on v's watch page, in page order
\*   old           videos published more than a month ago
\*   badJson       videos whose embedded ytInitialData does not parse
\*   unresolvable  videos the metadata API returns no item for
\*   title[c]      the display title of channel c
\* ------------------------------------------------------------------------
WorldA ==
  [uploads |-> [c \in ChannelIds |->
       CASE c = "chanX" -> <<"x1">>
         [] c = "chanY" -> <<"y1", "y2">>
         [] c = "chanZ" -> <<"z1">>
         [] c = "chanW" -> <<"w1">>
         [] OTHER       -> <<>>],
   noProfile |-> {"chanF"},
   noPlaylist |-> {},
   featured |-> [NoFeatured EXCEPT !["chanY"] = {"chanX"}],
   recos |-> [NoRecos EXCEPT !["x1"] = <<"y1", "z1">>,
                             !["y1"] = <<"z1", "z2", "w1">>,
                             !["y2"] = <<"x1">>,
                             !["z1"] = <<"y1", "w1", "w2">>,
                             !["w1"] = <<"x1", "y2">>],
   old |-> {"y2"},
   badJson |-> {"w1"},
   unresolvable |-> {"z2"},
   title |-> PlainTitles]

WorldB ==
  [uploads |-> [c \in ChannelIds |->
       CASE c = "chanX" -> <<"x1">>
         [] c = "chanY" -> <<"y1">>
         [] c = "chanZ" -> <<"z1">>
         [] c = "chanW" -> <<"w1">>
         [] OTHER       -> <<>>],
   noProfile |-> {},
   noPlaylist |-> {"chanF"},
   featured |-> NoFeatured,
   recos |-> [NoRecos EXCEPT !["x1"] = <<"y1", "y2", "z1">>,
                             !["y1"] = <<"z1", "z2", "w1", "w2", "w3">>,
                             !["z1"] = <<"x1", "w1">>,
                             !["w1"] = <<"x1">>],
   old |-> {},
   badJson |-> {},
   unresolvable |-> {},
   title |-> PlainTitles]

WorldC ==
  [uploads |-> [c \in ChannelIds |->
       CASE c = "chanX" -> <<"x1">>
         [] c = "chanY" -> <<"y1">>
         [] c = "chanZ" -> <<"z1", "z2", "z3">>
         [] c = "chanW" -> <<"w1">>
         [] OTHER       -> <<>>],
   noProfile |-> {"chanF"},
   noPlaylist |-> {},
   featured |-> NoFeatured,
   recos |-> [NoRecos EXCEPT !["x1"] = <<"z1", "z2", "y1">>,
                             !["y1"] = <<"x1", "w1">>,
                             !["z1"] = Fillers,
                             !["z2"] = Fillers,
                             !["z3"] = Fillers,
                             !["w1"] = <<"y1">>],
   old |-> {},
   badJson |-> {},
   unresolvable |-> {},
   title |-> PlainTitles]

WorldCId == [WorldC EXCEPT !.title = IdTitledZ]

WorldD ==
  [uploads |-> [c \in ChannelIds |->
       CASE c = "chanX" -> <<"x0", "x1", "x2", "x3", "x4", "x5">>
         [] c = "chanY" -> <<"y1", "y2">>
         [] c = "chanZ" -> <<"z1">>
         [] c = "chanW" -> <<"w1">>
         [] OTHER       -> <<>>],
   noProfile |-> {"chanF"},
   noPlaylist |-> {},
   featured |-> [NoFeatured EXCEPT !["chanZ"] = {"chanX"}],
   recos |-> [NoRecos EXCEPT !["x0"] = <<"y1", "z1">>,
                             !["x1"] = <<"y1", "y2", "z1">>,
                             !["x2"] = <<"y1", "z1", "z2">>,
                             !["x3"] = <<"w1", "w2">>,
                             !["x4"] = <<"y1", "w1">>,
                             !["x5"] = <<"z1", "z3">>,
                             !["y1"] = <<"x0", "z1">>,
                             !["y2"] = <<"z1">>,
                             !["z1"] = <<"y1", "y2">>],
   old |-> {"y2"},
   badJson |-> {},
   unresolvable |-> {"w2"},
   title |-> PlainTitles]

\* WorldA with z2, which the metadata API does not resolve, among the
\* uploads of chanZ.
WorldE == [WorldA EXCEPT !.uploads["chanZ"] = <<"z1", "z2">>]

\* WorldA where the page of x1 lists y1 twice, around z2, which the metadata
\* API does not resolve.
WorldR == [WorldA EXCEPT !.recos["x1"] = <<"y1", "z2", "y1", "z1">>]

\* A quiet world: three channels of 34 uploads each, every one of which
\* recommends the one video w1.
WorldQ ==
  [uploads |-> [c \in ChannelIds |->
       CASE c = "chanX" -> Block(1, 34)
         [] c = "chanY" -> Block(35, 34)
         [] c = "chanZ" -> Block(69, 34)
         [] c = "chanW" -> <<"w1">>
         [] OTHER       -> <<>>],
   noProfile |-> {"chanF"},
   noPlaylist |-> {},
   featured |-> NoFeatured,
   recos |-> [v \in Videos |-> IF v \in BulkVideos THEN <<"w1">> ELSE <<>>],
   old |-> {},
   badJson |-> {},
   unresolvable |-> {},
   title |-> PlainTitles]

\* A loud world: the uploads of chanX and of chanY recommend twenty videos
\* each, all different; the page of b37 lists one result more than is read.
WorldL ==
  [uploads |-> [c \in ChannelIds |->
       CASE c = "chanX" -> Block(1, 3)
         [] c = "chanY" -> Block(35, 3)
         [] c = "chanZ" -> Block(69, 1)
         [] c = "chanW" -> <<"w1">>
         [] OTHER       -> <<>>],
   noProfile |-> {"chanF"},
   noPlaylist |-> {},
   featured |-> NoFeatured,
   recos |-> [NoRecos EXCEPT ![Bulk[1]] = Block(35, 20),
                             ![Bulk[2]] = Block(55, 20),
                             ![Bulk[3]] = Block(75, 20),
                             ![Bulk[35]] = Block(4, 20),
                             ![Bulk[36]] = Block(95, 20),
                             ![Bulk[37]] = Block(115, 21)],
   old |-> {},
   badJson |-> {},
   unresolvable |-> {},
   title |-> PlainTitles]

\* ------------------------------------------------------------------------
\* The record store
\* ------------------------------------------------------------------------
EmptyMap == [x \in {} |-> "none"]

\* F applied to the value of x: x is evaluated once, where a LET would have
\* it evaluated again at each use.
LetBe(x, F(_)) == CHOOSE r \in {F(v) : v \in {x}} : TRUE

\* A dictionary kept as a sequence of entries [id |-> key, ...] in insertion order.
HasEntry(d, k) == \E i \in 1..Len(d) : d[i].id = k
Entry(d, k) == d[CHOOSE i \in 1..Len(d) : d[i].id = k]

\* The recommendations get_recommendations reads off a page: the first
\* result, then results 1 to 19.
PageRecos(results) ==
  SubSeq(results, 1, IF Len(results) < RECOS_PER_PAGE THEN Len(results) ELSE RECOS_PER_PAGE)

\* The record get_recommendations stores for a scrapped video.
ScrappedRecord(w, v) ==
  [id |-> v,
   recommendations |-> PageRecos(w.recos[v]),
   channel |-> w.title[OwnerOf(v)],
   channel_id |-> OwnerOf(v)]

\* The scrapped-videos file a previous run of the same day left: the
\* records of the videos vs, in that order.
ScrappedFile(w, vs) == [i \in 1..Len(vs) |-> ScrappedRecord(w, vs[i])]

\* The entry scrap_the_channel stores for a channel whose profile and uploads were found.
ChannelRecord(w, c) == [uploads |-> w.uploads[c], featuredChannelsUrls |-> w.featured[c]]

ChannelFile(w, cs) == [c \in cs |-> ChannelRecord(w, c)]

\* ------------------------------------------------------------------------
\* State
\* ------------------------------------------------------------------------
VARIABLES
  \* the platform and the configuration of the run (fixed during a run)
  world,
  base_channels,          \* the seed list handed to scrap_from_base
  max_channels,
  required_recos,
  only_scrap_chans_featuring_base,
  skip_older_videos,
  blacklist,              \* the lines of blacklisted_youtube_channels.txt
  \* the record store, in memory
  channel_stats,          \* channel id -> [uploads, featuredChannelsUrls]
  api_videos,             \* video id -> channel id, from the metadata API
  scrapped_videos,        \* entries [id, recommendations, channel, channel_id]
  video_to_chan_map,      \* video id -> channel id
  \* the record store, on disk
  disk,
  \* run-scoped state of the crawler
  total_channel_stats,    \* the tally: entries [id, count] in insertion order
  do_not_expand_channel_ids,
  \* locals of scrap_from_base
  pc,
  base_idx,
  number_of_saved_videos,
  nb_extra_channels,
  sorted_top_channels,
  channels_with_enough_recos,
  cand_idx,
  \* history
  fetch_count,            \* video id -> number of page fetches
  expand_count,           \* channel id -> runs of getChannelToCountFromUploads
  last_expansion,         \* the last run of getChannelToCountFromUploads, and the videos
                          \* it handed to scrap_the_video, in order
  iter_log,               \* what the current snowball iteration saw and did
  call_log,               \* video id -> results of the harness's calls of get_recommendations
  api_max,                \* the most ids one call of getVideosFromYouTubeAPI carried
  save_count,             \* runs of save_videos
  backend_calls,          \* requests sent to the data API: per channel and for videos
  error,                  \* the uncaught exception that ended the run, "none" if none
  outputs,                \* the result file and the channel-share file, <<>> while unwritten
  attempt,                \* a call of try_to_do: the function wrapped and how it fares
  est,                    \* compute_recent_files: the snapshots loaded and the estimator's locals
  launch,                 \* launch_scrapping: the command line and the lists it loads
  NO_SCRAPPING,           \* the module's switch "only use API calls, but no scrapping"
  recent,                 \* compute_recent_views: what the dates hold for a video, and the result
  chan_calls,             \* the channels handed to scrap_the_channel one by one, in order
  page,                   \* get_recommendations asking for a watch page: the loop around urlopen
  io                      \* where save_videos stands and what the files hold (saver harness)

vars == <<world, NO_SCRAPPING, chan_calls, recent, base_channels, max_channels, required_recos,
          only_scrap_chans_featuring_base, skip_older_videos, blacklist,
          channel_stats, api_videos, scrapped_videos, video_to_chan_map, disk,
          total_channel_stats, do_not_expand_channel_ids,
          pc, base_idx, number_of_saved_videos, nb_extra_channels,
          sorted_top_channels, channels_with_enough_recos, cand_idx,
          fetch_count, expand_count, last_expansion, iter_log, call_log,
          api_max, save_count, backend_calls, error, outputs, attempt, est, launch,
          page, io>>

configVars == <<world, NO_SCRAPPING, base_channels, max_channels, required_recos,
                only_scrap_chans_featuring_base, skip_older_videos, blacklist>>

\* The part of the state the scrapper's methods read and write, as one record.
Cur ==
  [channel_stats |-> channel_stats,
   api_videos |-> api_videos,
   scrapped_videos |-> scrapped_videos,
   video_to_chan_map |-> video_to_chan_map,
   disk |-> disk,
   total_channel_stats |-> total_channel_stats,
   do_not_expand_channel_ids |-> do_not_expand_channel_ids,
   fetch_count |-> fetch_count,
   expand_count |-> expand_count,
   last_expansion |-> last_expansion,
   api_max |-> api_max,
   save_count |-> save_count,
   backend_calls |-> backend_calls]

Becomes(S) ==
  /\ channel_stats' = S.channel_stats
  /\ api_videos' = S.api_videos
  /\ scrapped_videos' = S.scrapped_videos
  /\ video_to_chan_map' = S.video_to_chan_map
  /\ disk' = S.disk
  /\ total_channel_stats' = S.total_channel_stats
  /\ do_not_expand_channel_ids' = S.do_not_expand_channel_ids
  /\ fetch_count' = S.fetch_count
  /\ expand_count' = S.expand_count
  /\ last_expansion' = S.last_expansion
  /\ api_max' = S.api_max
  /\ save_count' = S.save_count
  /\ backend_calls' = S.backend_calls

\* ------------------------------------------------------------------------
\* saveToFile / save_videos
\* ------------------------------------------------------------------------
SaveVideoToChan(S) == [S EXCEPT !.disk.video_to_chan = S.video_to_chan_map]

SaveVideos(S) ==
  [S EXCEPT !.disk = [all_channels |-> S.channel_stats,
                      api_videos |-> S.api_videos,
                      scrapped_videos |-> S.scrapped_videos,
                      video_to_chan |-> S.video_to_chan_map],
            !.save_count = @ + 1]

\* ------------------------------------------------------------------------
\* getVideosFromYouTubeAPI: one call of the metadata API with the ids of the
\* sequence ids; every item returned is stored in api_videos and in the
\* video to channel map.
\* ------------------------------------------------------------------------
GetVideosFromYouTubeAPI(S, ids) ==
  LET items == {ids[i] : i \in 1..Len(ids)} \ world.unresolvable
  IN [S EXCEPT
        !.api_videos = [v \in (DOMAIN S.api_videos) \cup items |->
                          IF v \in items THEN OwnerOf(v) ELSE S.api_videos[v]],
        !.video_to_chan_map = [v \in (DOMAIN S.video_to_chan_map) \cup items |->
                          IF v \in items THEN OwnerOf(v) ELSE S.video_to_chan_map[v]],
        !.api_max = IF Len(ids) > @ THEN Len(ids) ELSE @,
        !.backend_calls.videos_list = @ + 1]

\* ------------------------------------------------------------------------
\* get_recommendations
\* ------------------------------------------------------------------------
GetRecommendations(S, video_id) ==
  IF HasEntry(S.scrapped_videos, video_id)
  THEN \* reuse what the store holds
       [S |-> S, recos |-> Entry(S.scrapped_videos, video_id).recommendations]
  ELSE LET F == [S EXCEPT !.fetch_count[video_id] = @ + 1]
       IN IF video_id \in world.old /\ skip_older_videos
          THEN [S |-> F, recos |-> <<>>]
          ELSE IF video_id \in world.badJson
          THEN [S |-> F, recos |-> <<>>]
          ELSE [S |-> [F EXCEPT !.scrapped_videos =
                         Append(@, ScrappedRecord(world, video_id))],
                recos |-> PageRecos(world.recos[video_id])]

\* ------------------------------------------------------------------------
\* getChannelForVideo: ok is FALSE where the code raises KeyError
\* ------------------------------------------------------------------------
GetChannelForVideo(S, video) ==
  IF video \in DOMAIN S.api_videos
  THEN [S |-> S, ok |-> TRUE, channel |-> S.api_videos[video]]
  ELSE IF video \in DOMAIN S.video_to_chan_map
  THEN [S |-> S, ok |-> TRUE, channel |-> S.video_to_chan_map[video]]
  ELSE LetBe(GetVideosFromYouTubeAPI(S, <<video>>), LAMBDA S1 :
         IF video \in DOMAIN S1.api_videos
         THEN [S |-> S1, ok |-> TRUE, channel |-> S1.api_videos[video]]
         ELSE [S |-> S1, ok |-> FALSE, channel |-> "none"])

\* A count dictionary: entries [id, count] in insertion order.
CountOf(d, k) == IF HasEntry(d, k) THEN Entry(d, k).count ELSE 0

\* A count added twice over.
AddCountTwice(d, k, n) ==
  IF HasEntry(d, k)
  THEN [i \in 1..Len(d) |-> IF d[i].id = k THEN [d[i] EXCEPT !.count = @ + 2 * n] ELSE d[i]]
  ELSE Append(d, [id |-> k, count |-> 2 * n])

AddCount(d, k, n) ==
  IF HasEntry(d, k)
  THEN [i \in 1..Len(d) |-> IF d[i].id = k THEN [d[i] EXCEPT !.count = @ + n] ELSE d[i]]
  ELSE Append(d, [id |-> k, count |-> n])

\* ------------------------------------------------------------------------
\* scrap_the_video
\* ------------------------------------------------------------------------
\* The ids of recos the store does not know, joined for one API call.
UnknownRecos(S, recos) ==
  SelectSeq(recos, LAMBDA r : r \notin DOMAIN S.api_videos
                              /\ r \notin DOMAIN S.video_to_chan_map)

\* CountRecos with the last recommendation of the list left out.
RECURSIVE CountRecosButLast(_, _, _, _)
CountRecosButLast(S, recos, i, channel_to_counts) ==
  IF i >= Len(recos)
  THEN [S |-> S, channel_to_counts |-> channel_to_counts]
  ELSE LetBe(GetChannelForVideo(S, recos[i]), LAMBDA g :
       LetBe(IF g.ok THEN AddCount(channel_to_counts, g.channel, 1)
                     ELSE channel_to_counts, LAMBDA counts :
         CountRecosButLast(g.S, recos, i + 1, counts)))

\* CountRecos where the first recommendation that cannot be resolved ends
\* the loop.
RECURSIVE CountRecosUntilUnresolved(_, _, _, _)
CountRecosUntilUnresolved(S, recos, i, channel_to_counts) ==
  IF i > Len(recos)
  THEN [S |-> S, channel_to_counts |-> channel_to_counts]
  ELSE LetBe(GetChannelForVideo(S, recos[i]), LAMBDA g :
         IF g.ok
         THEN CountRecosUntilUnresolved(g.S, recos, i + 1,
                                        AddCount(channel_to_counts, g.channel, 1))
         ELSE [S |-> g.S, channel_to_counts |-> channel_to_counts])

\* The loop that counts each recommendation's channel; a recommendation
\* whose channel lookup raises KeyError is skipped.
RECURSIVE CountRecos(_, _, _, _)
CountRecos(S, recos, i, channel_to_counts) ==
  IF i > Len(recos)
  THEN [S |-> S, channel_to_counts |-> channel_to_counts]
  ELSE LetBe(GetChannelForVideo(S, recos[i]), LAMBDA g :
       LetBe(IF g.ok THEN AddCount(channel_to_counts, g.channel, 1)
                     ELSE channel_to_counts, LAMBDA counts :
         CountRecos(g.S, recos, i + 1, counts)))

ScrapTheVideo(S, video_id, channel_to_counts) ==
  LetBe(GetRecommendations([S EXCEPT !.last_expansion.expanded = Append(@, video_id)],
                           video_id), LAMBDA r :
  LetBe(UnknownRecos(r.S, r.recos), LAMBDA video_to_get_by_api :
  LetBe(IF video_to_get_by_api # <<>>
        THEN GetVideosFromYouTubeAPI(r.S, video_to_get_by_api)
        ELSE r.S, LAMBDA S1 :
    CountRecos(S1, r.recos, 1, channel_to_counts))))

\* ------------------------------------------------------------------------
\* getChannelToCountFromUploads
\* ------------------------------------------------------------------------
RECURSIVE SumRecos(_, _, _)
SumRecos(S, videos, i) ==
  IF i > Len(videos) THEN 0
  ELSE Len(Entry(S.scrapped_videos, videos[i]).recommendations) + SumRecos(S, videos, i + 1)

Elems(q) == {q[i] : i \in 1..Len(q)}

\* The first pass left out: no upload is taken from the store ahead of the others.
CachedUploadsSkipped(S, items) == <<>>

\* First pass: the uploads the store already holds, in upload order.
CachedUploads(S, items) == SelectSeq(items, LAMBDA v : HasEntry(S.scrapped_videos, v))

\* The videos needed with the quotient rounded up.
TotalVideoNeededRoundedUp(nb_cached, nb_recos, required) ==
  IF nb_recos < required
  THEN nb_cached + ((required - nb_recos) \div ESTIMATED_RECOS_PER_VIDEO) + 1
  ELSE nb_cached

\* total_video_needed: the cached uploads, and one more video for every
\* ESTIMATED_RECOS_PER_VIDEO recommendations still missing.
TotalVideoNeeded(nb_cached, nb_recos, required) ==
  IF nb_recos < required
  THEN nb_cached + ((required - nb_recos) \div ESTIMATED_RECOS_PER_VIDEO)
  ELSE nb_cached

\* Second pass: walk the uploads, append the ones not taken yet, and stop
\* after the first upload at which enough videos are taken.
RECURSIVE SecondPass(_, _, _, _)
SecondPass(items, i, videos_to_get, total_video_needed) ==
  IF i > Len(items) THEN videos_to_get
  ELSE LetBe(IF items[i] \notin Elems(videos_to_get)
             THEN Append(videos_to_get, items[i])
             ELSE videos_to_get, LAMBDA taken :
         IF Len(taken) >= total_video_needed
         THEN taken
         ELSE SecondPass(items, i + 1, taken, total_video_needed))

RECURSIVE ScrapVideos(_, _, _, _)
ScrapVideos(S, videos_to_get, i, channel_to_counts) ==
  IF i > Len(videos_to_get)
  THEN [S |-> S, channel_to_counts |-> channel_to_counts]
  ELSE LetBe(ScrapTheVideo(S, videos_to_get[i], channel_to_counts), LAMBDA r :
         ScrapVideos(r.S, videos_to_get, i + 1, r.channel_to_counts))

GetChannelToCountFromUploads(S, channel, items, required) ==
  LetBe(CachedUploads(S, items), LAMBDA cached :
  LetBe(SumRecos(S, cached, 1), LAMBDA nb_recos :
  LetBe(TotalVideoNeeded(Len(cached), nb_recos, required), LAMBDA total_video_needed :
  LetBe(SecondPass(items, 1, cached, total_video_needed), LAMBDA videos_to_get :
  LetBe([S EXCEPT !.expand_count[channel] = @ + 1,
                  !.last_expansion = [channel |-> channel,
                                      cached |-> cached,
                                      nb_recos |-> nb_recos,
                                      required |-> required,
                                      videos_to_get |-> videos_to_get,
                                      expanded |-> <<>>]], LAMBDA S1 :
    ScrapVideos(S1, videos_to_get, 1, <<>>))))))

\* ------------------------------------------------------------------------
\* scrap_the_channel
\* ------------------------------------------------------------------------
\* AddCounts with "=" where the code has "+=".
RECURSIVE AddCountsOverwrite(_, _, _)
AddCountsOverwrite(tally, channel_to_counts, i) ==
  IF i > Len(channel_to_counts) THEN tally
  ELSE LetBe(IF HasEntry(tally, channel_to_counts[i].id)
             THEN [j \in 1..Len(tally) |->
                     IF tally[j].id = channel_to_counts[i].id
                     THEN [tally[j] EXCEPT !.count = channel_to_counts[i].count]
                     ELSE tally[j]]
             ELSE Append(tally, channel_to_counts[i]), LAMBDA t :
         AddCountsOverwrite(t, channel_to_counts, i + 1))

RECURSIVE AddCounts(_, _, _)
AddCounts(tally, channel_to_counts, i) ==
  IF i > Len(channel_to_counts) THEN tally
  ELSE LetBe(AddCount(tally, channel_to_counts[i].id, channel_to_counts[i].count),
             LAMBDA t : AddCounts(t, channel_to_counts, i + 1))

\* The filter when the featured channels are not looked at.
FeaturesAny(S, channel, featuring) ==
  \/ channel \in featuring
  \/ channel \in DOMAIN S.channel_stats

\* The test of the "features a base channel" filter; featuring is the set
\* of channels to feature, {} when the filter is off.
FeaturesOne(S, channel, featuring) ==
  \/ channel \in featuring
  \/ S.channel_stats[channel].featuredChannelsUrls \cap featuring # {}

\* The channel expansion proper, once the upload list is at hand.
ExpandUploads(S, channel, required, featuring) ==
  IF featuring # {} /\ ~FeaturesOne(S, channel, featuring)
  THEN S
  ELSE LetBe(GetChannelToCountFromUploads(S, channel,
                 S.channel_stats[channel].uploads, required), LAMBDA r :
         [r.S EXCEPT !.total_channel_stats = AddCounts(@, r.channel_to_counts, 1)])

\* The test at the head of scrap_the_channel without its effect: no call
\* returns at once.
SuppressedNever(S, channel) == FALSE

\* The test at the head of scrap_the_channel: the channel is in the
\* do-not-expand set, or scrapping is switched off.
Suppressed(S, channel) ==
  \/ channel \in S.do_not_expand_channel_ids
  \/ NO_SCRAPPING

\* The queries of scrap_the_channel where a lookup that comes back empty is
\* sent a second time.
QueryChannelRetried(S, channel) ==
  [S EXCEPT !.backend_calls.channels_list[channel] =
                IF channel \in world.noProfile THEN @ + 2 ELSE @ + 1,
            !.backend_calls.playlist_items[channel] =
                IF channel \in world.noProfile THEN @
                ELSE IF channel \in world.noPlaylist THEN @ + 2 ELSE @ + 1]

\* The two queries of scrap_the_channel: the channel profile, then, when the
\* profile came with items, the uploads playlist. Each is sent once.
QueryChannel(S, channel) ==
  [S EXCEPT !.backend_calls.channels_list[channel] = @ + 1,
            !.backend_calls.playlist_items[channel] =
                IF channel \in world.noProfile THEN @ ELSE @ + 1]

\* scrap_the_channel without the line that marks the channel.
ScrapTheChannelUnmarked(S, channel, required, featuring) ==
  IF Suppressed(S, channel)
  THEN S
  ELSE IF channel \in DOMAIN S.channel_stats
       THEN ExpandUploads(S, channel, required, featuring)
       ELSE LetBe(QueryChannel(S, channel), LAMBDA Q :
              IF channel \in world.noProfile \/ channel \in world.noPlaylist
              THEN Q
              ELSE LetBe([Q EXCEPT !.channel_stats =
                            [c \in (DOMAIN Q.channel_stats) \cup {channel} |->
                               IF c = channel THEN ChannelRecord(world, channel)
                               ELSE Q.channel_stats[c]]], LAMBDA S2 :
                     ExpandUploads(S2, channel, required, featuring)))

ScrapTheChannel(S, channel, required, featuring) ==
  IF Suppressed(S, channel)
  THEN S
  ELSE LetBe([S EXCEPT !.do_not_expand_channel_ids = @ \cup {channel}], LAMBDA S1 :
         IF channel \in DOMAIN S1.channel_stats
         THEN ExpandUploads(S1, channel, required, featuring)
         ELSE LetBe(QueryChannel(S1, channel), LAMBDA Q :
                IF channel \in world.noProfile \/ channel \in world.noPlaylist
                THEN Q
                ELSE LetBe([Q EXCEPT !.channel_stats =
                              [c \in (DOMAIN Q.channel_stats) \cup {channel} |->
                                 IF c = channel THEN ChannelRecord(world, channel)
                                 ELSE Q.channel_stats[c]]], LAMBDA S2 :
                       ExpandUploads(S2, channel, required, featuring))))

\* ------------------------------------------------------------------------
\* getChannelsWithEnoughRecos: keyed by the 'channel' field of the records
\* ------------------------------------------------------------------------
RECURSIVE RecosOfChannelName(_, _, _)
RecosOfChannelName(scrapped, name, i) ==
  IF i > Len(scrapped) THEN 0
  ELSE (IF scrapped[i].channel = name THEN Len(scrapped[i].recommendations) ELSE 0)
       + RecosOfChannelName(scrapped, name, i + 1)

GetChannelsWithEnoughRecos(S) ==
  {name \in {S.scrapped_videos[i].channel : i \in 1..Len(S.scrapped_videos)} :
     RecosOfChannelName(S.scrapped_videos, name, 1) > ENOUGH_RECOS}

\* ------------------------------------------------------------------------
\* sorted(self._total_channel_stats, key=..., reverse=True): descending
\* count, equal counts in insertion order (the sort is stable).
\* ------------------------------------------------------------------------
RemoveAt(q, i) == [j \in 1..(Len(q) - 1) |-> IF j < i THEN q[j] ELSE q[j + 1]]

\* The ranking where, of channels with equal counts, the one inserted last
\* comes first.
RECURSIVE SortedLastFirst(_)
SortedLastFirst(tally) ==
  IF tally = <<>> THEN <<>>
  ELSE LetBe(CHOOSE i \in 1..Len(tally) :
               /\ \A j \in 1..Len(tally) : tally[j].count <= tally[i].count
               /\ \A j \in (i + 1)..Len(tally) : tally[j].count < tally[i].count,
             LAMBDA best :
       LetBe(RemoveAt(tally, best), LAMBDA rest :
         <<tally[best].id>> \o SortedLastFirst(rest)))

RECURSIVE SortedTopChannels(_)
SortedTopChannels(tally) ==
  IF tally = <<>> THEN <<>>
  ELSE LetBe(CHOOSE i \in 1..Len(tally) :
               /\ \A j \in 1..Len(tally) : tally[j].count <= tally[i].count
               /\ \A j \in 1..(i - 1) : tally[j].count < tally[i].count, LAMBDA best :
       LetBe(RemoveAt(tally, best), LAMBDA rest :
         <<tally[best].id>> \o SortedTopChannels(rest)))

\* ------------------------------------------------------------------------
\* make_video_to_chan_map / get_all_api_data: every scrapped video and every
\* recommendation the store does not know is asked of the API, API_BATCH
\* ids at a time; then the map is refreshed from api_videos and saved.
\* ------------------------------------------------------------------------
RECURSIVE FlatIds(_, _)
FlatIds(scrapped, i) ==
  IF i > Len(scrapped) THEN <<>>
  ELSE <<scrapped[i].id>> \o scrapped[i].recommendations \o FlatIds(scrapped, i + 1)

\* make_video_to_chan_map also accepts an id the map knows (useMap).
KnownVideo(S, v, useMap) ==
  \/ v \in DOMAIN S.api_videos
  \/ useMap /\ v \in DOMAIN S.video_to_chan_map

\* One turn of the batched loop, on the store and the batch gathered so
\* far, with the call of the API made one id late.
BatchStepLate(st, v, useMap) ==
  IF KnownVideo(st.S, v, useMap) THEN st
  ELSE IF Len(st.batch) = API_BATCH + 1
  THEN [S |-> GetVideosFromYouTubeAPI(st.S, st.batch), batch |-> <<v>>]
  ELSE [S |-> st.S, batch |-> Append(st.batch, v)]

\* One turn of the batched loop: an id already known is passed over; a full
\* batch is sent before the id opens the next batch.
BatchStep(st, v, useMap) ==
  IF KnownVideo(st.S, v, useMap) THEN st
  ELSE IF Len(st.batch) = API_BATCH
  THEN [S |-> GetVideosFromYouTubeAPI(st.S, st.batch), batch |-> <<v>>]
  ELSE [S |-> st.S, batch |-> Append(st.batch, v)]

\* The turns for ids[lo..hi], in order (the range is halved to keep the
\* evaluation shallow).
RECURSIVE BatchRange(_, _, _, _, _)
BatchRange(st, ids, lo, hi, useMap) ==
  IF lo > hi THEN st
  ELSE IF lo = hi THEN LetBe(st, LAMBDA t : BatchStep(t, ids[lo], useMap))
  ELSE LetBe(BatchRange(st, ids, lo, (lo + hi) \div 2, useMap), LAMBDA mid :
         BatchRange(mid, ids, ((lo + hi) \div 2) + 1, hi, useMap))

\* The loop from ids[i] on, then "Get the remaining videos if there are some".
BatchFold(S, ids, i, video_to_get_by_api, useMap) ==
  LetBe(BatchRange([S |-> S, batch |-> video_to_get_by_api], ids, i, Len(ids), useMap),
        LAMBDA st : IF st.batch # <<>>
                    THEN GetVideosFromYouTubeAPI(st.S, st.batch)
                    ELSE st.S)

UpdateMapFromApi(S) ==
  LetBe(S, LAMBDA T :
    [T EXCEPT !.video_to_chan_map =
       [v \in (DOMAIN T.video_to_chan_map) \cup (DOMAIN T.api_videos) |->
          IF v \in DOMAIN T.api_videos THEN T.api_videos[v]
          ELSE T.video_to_chan_map[v]]])

MakeVideoToChanMap(S) ==
  LetBe(FlatIds(S.scrapped_videos, 1), LAMBDA ids :
  LetBe(BatchFold(S, ids, 1, <<>>, TRUE), LAMBDA S1 :
  LetBe(UpdateMapFromApi(S1), LAMBDA S2 : SaveVideoToChan(S2))))

GetAllApiData(S) ==
  LetBe(FlatIds(S.scrapped_videos, 1), LAMBDA ids :
  LetBe(BatchFold(S, ids, 1, <<>>, FALSE), LAMBDA S1 :
  LetBe(UpdateMapFromApi(S1), LAMBDA S2 : SaveVideoToChan(S2))))

\* ------------------------------------------------------------------------
\* compute_recent_files: the snapshots of several dates and the estimate of
\* the views each video received through recommendations.
\* ------------------------------------------------------------------------
\* The dates loaded, oldest first.
rdates == <<"01-10-2018", "02-10-2018", "03-10-2018">>

EstVideos == {"vA", "vB", "vC"}

\* What a snapshot may hold for vA at the i-th date: nothing, a record
\* scrapped from an empty page (no title), or a record with a view count
\* (-1 when the count was not found) and a list of recommendations, in
\* which a page may list one video twice.
ViewsOfA == << {100, -1}, {120, 200}, {150, -1} >>
ListsOfA == { <<>>, <<"vB">>, <<"vB", "vC">>, <<"vB", "vB">> }

RecordsOfA(i) ==
  {<<>>, << [views |-> -1, recommendations |-> <<>>, title |-> ""] >>}
    \cup { << [views |-> w, recommendations |-> l, title |-> "A"] >> :
             w \in ViewsOfA[i], l \in ListsOfA }

\* For vB: nothing, or a record whose views rise, then fall.
ViewsOfB == <<10, 30, 20>>

RecordsOfB(i) ==
  {<<>>, << [views |-> ViewsOfB[i], recommendations |-> <<"vC">>, title |-> "B"] >>}

\* scrapped_videos.json of one date: video id -> record.
SnapshotOf(a, b) ==
  [v \in {u \in {"vA", "vB"} : (IF u = "vA" THEN a ELSE b) # <<>>} |->
     IF v = "vA" THEN a[1] ELSE b[1]]

SnapshotsAt(i) == {SnapshotOf(a, b) : a \in RecordsOfA(i), b \in RecordsOfB(i)}

\* A key never set reads 0 (collections.defaultdict(int)).
NoRecosYet == [r \in EstVideos |-> 0]
NoRecosDateYet == [r \in EstVideos |-> [i \in 1..Len(rdates) |-> 0]]

\* No pair of observations compared yet.
NotEvaluated ==
  [v \in EstVideos |-> [first \in 0..Len(rdates) - 1 |->
                          [second \in 0..Len(rdates) - 1 |-> 0]]]

\* The estimator before the files are loaded.
NoEstimate ==
  [phase |-> "idle", scrapped_videos |-> <<>>, all_scrapped_vids |-> {},
   todo |-> {}, v |-> "none", first_index |-> 0, second_index |-> 0,
   video_to_recos |-> NoRecosYet, video_to_recos_date |-> NoRecosDateYet,
   pairs |-> {}, credits |-> {}, evaluated |-> NotEvaluated]

\* The estimator with the files of the dates loaded: scrapped_videos[i] is
\* the snapshot of rdates[i].
\*   pairs    the pairs of observations compared so far
\*   credits  the attributions made so far
\*   evaluated[v][first][second]  the number of times lines 1224 to 1240
\*            were run for v with these two indices
EstimatorInputs ==
  { [NoEstimate EXCEPT
       !.phase = "loaded",
       !.scrapped_videos = <<s1, s2, s3>>,
       !.all_scrapped_vids = DOMAIN s1 \cup DOMAIN s2 \cup DOMAIN s3] :
    s1 \in SnapshotsAt(1), s2 \in SnapshotsAt(2), s3 \in SnapshotsAt(3) }

\* scrapped_videos[rdates[index]], for an index counted from 0.
SnapshotAt(e, index) == e.scrapped_videos[index + 1]

\* "Delete scrapped videos that returned empty data."
DeleteEmpty(snapshot) ==
  [v \in {u \in DOMAIN snapshot : snapshot[u].title # ""} |-> snapshot[v]]

\* int(a/n): the quotient cut towards zero.
IntDiv(a, n) == IF a >= 0 THEN a \div n ELSE -((-a) \div n)

\* "if view_inc > 0" with the test dropped for any change of the views.
CreditsViewsChanged(view_inc) == view_inc # 0

\* "if view_inc > 0"
CreditsViews(view_inc) == view_inc > 0

\* The amount credited with "only half of the recos were from that video"
\* taken at its word.
CreditHalf(view_inc) == IntDiv(view_inc, 2)

\* video_to_recos[reco] += int(view_inc)
Credit(view_inc) == view_inc

\* The recommendations of the first observation, kept whether or not the
\* second observation has them.
PersistingUnfiltered(first_video, second_video) == first_video.recommendations

\* The recommendations of the first observation that the second one has too.
Persisting(first_video, second_video) ==
  SelectSeq(first_video.recommendations,
            LAMBDA reco : \E k \in 1..Len(second_video.recommendations) :
                             second_video.recommendations[k] = reco)

\* The scan for the second observation started at the first one itself.
SecondStartSame(first_index) == first_index

\* second_index = first_index + 1
SecondStart(first_index) == first_index + 1

\* Lines 1224 to 1240: the two observations of e.v are compared and the
\* rise of the views is credited to every persisting recommendation, whole
\* in the total and in equal shares over the dates first..second.
Attributed(e) ==
  LET first_video == SnapshotAt(e, e.first_index)[e.v]
      second_video == SnapshotAt(e, e.second_index)[e.v]
      view_inc == second_video.views - first_video.views
      kept == IF CreditsViews(view_inc) THEN Persisting(first_video, second_video)
              ELSE <<>>
      times(r) == Cardinality({j \in 1..Len(kept) : kept[j] = r})
      nb_index_to_retribute == 1 + e.second_index - e.first_index
      share == IntDiv(view_inc, nb_index_to_retribute)
  IN [e EXCEPT
        !.video_to_recos = [r \in EstVideos |-> @[r] + times(r) * Credit(view_inc)],
        !.video_to_recos_date =
           [r \in EstVideos |-> [i \in 1..Len(rdates) |->
              IF e.first_index + 1 <= i /\ i <= e.second_index + 1
              THEN @[r][i] + times(r) * share ELSE @[r][i]]],
        !.pairs = @ \cup {[v |-> e.v, first |-> e.first_index,
                           second |-> e.second_index, view_inc |-> view_inc]},
        !.evaluated[e.v][e.first_index][e.second_index] = @ + 1,
        !.credits = @ \cup {[v |-> e.v, first |-> e.first_index,
                             second |-> e.second_index, place |-> j,
                             reco |-> kept[j], amount |-> Credit(view_inc),
                             share |-> share] : j \in 1..Len(kept)},
        !.first_index = e.second_index,
        !.phase = "first"]

\* ------------------------------------------------------------------------
\* compute_recent_views: dates, view counts, the window
\* ------------------------------------------------------------------------
\* A date of a folder name, dd-mm-yyyy, is <<dd, mm, yyyy>>; a date
\* yyyy-mm-dd is <<yyyy, mm, dd>>; the empty string is <<>>. Strings of
\* either form compare as these tuples do, left to right.
invert_date(date) == <<date[3], date[2], date[1]>>

\* a >= b for two dates of the same form
NotBefore(a, b) ==
  \/ a[1] > b[1]
  \/ a[1] = b[1] /\ a[2] > b[2]
  \/ a[1] = b[1] /\ a[2] = b[2] /\ a[3] >= b[3]

\* dates: the dates of the folders, newest first.
RecentDates == << <<2, 10, 2018>>, <<1, 10, 2018>>, <<30, 9, 2018>> >>

\* publishedAt[0:10] of the video, '' when the snippet has none.
PubDates == { <<>>, <<2018, 9, 29>>, <<2018, 9, 30>>, <<2018, 10, 1>>, <<2018, 10, 2>> }

\* What the files of one date hold for the video: whether api_videos.json
\* has a record of it and the viewCount of its statistics (<<>> when it has
\* none), and the views of its record in scrapped_videos.json (<<>> when
\* the file has no record).
ObservedChoices ==
  { [api |-> FALSE, viewCount |-> <<>>, scrapped |-> <<>>],
    [api |-> FALSE, viewCount |-> <<>>, scrapped |-> <<-1>>],
    [api |-> FALSE, viewCount |-> <<>>, scrapped |-> <<100>>],
    [api |-> TRUE, viewCount |-> <<>>, scrapped |-> <<100>>],
    [api |-> TRUE, viewCount |-> <<0>>, scrapped |-> <<>>],
    [api |-> TRUE, viewCount |-> <<80>>, scrapped |-> <<100>>],
    [api |-> TRUE, viewCount |-> <<150>>, scrapped |-> <<>>] }

\* int(api_videos_date[date].get(v, {'statistics': {'viewCount':
\*   scrapped_videos[date].get(v, {'views': -1})['views']}})
\*   .get('statistics', {}).get('viewCount', -1))
ObservedViews(o) ==
  IF ~o.api
  THEN (IF o.scrapped = <<>> THEN -1 ELSE o.scrapped[1])
  ELSE IF o.viewCount = <<>> THEN -1 ELSE o.viewCount[1]

\* view_history[-dayz:]
LastDays(view_history, dayz) ==
  IF dayz >= Len(view_history) THEN view_history
  ELSE SubSeq(view_history, Len(view_history) - dayz + 1, Len(view_history))

MaxOf(q) == CHOOSE x \in {q[i] : i \in 1..Len(q)} : \A i \in 1..Len(q) : q[i] <= x

\* min(x for x in ... if x > 0)
MinPositive(q) ==
  CHOOSE x \in {q[i] : i \in 1..Len(q)} :
     x > 0 /\ \A i \in 1..Len(q) : q[i] > 0 => x <= q[i]

\* v in api_videos: the api_videos.json of some date holds the video.
InApiVideos(r) == \E i \in 1..Len(r.dates) : r.at[i].api

\* compute_recent_views before it is called.
NoRecentViews ==
  [phase |-> "idle", dates |-> <<>>, at |-> <<>>, pub_date |-> <<>>, dayz |-> 0,
   view_history |-> <<>>, recent_views |-> <<>>, missing |-> 0, error |-> "none"]

\* The call compute_recent_views(dayz) with the files of the dates loaded:
\* at[i] is what the files of dates[i] hold for the video.
RecentInputs ==
  { [NoRecentViews EXCEPT
       !.phase = "loaded", !.dates = RecentDates, !.at = <<o1, o2, o3>>,
       !.pub_date = p, !.dayz = n] :
    o1 \in ObservedChoices, o2 \in ObservedChoices, o3 \in ObservedChoices,
    p \in PubDates, n \in 1..MaxDayz }

\* ------------------------------------------------------------------------
\* launch_scrapping: the command line
\* ------------------------------------------------------------------------
\* What --noscrap and --channelstats may read; "none" when the option is
\* not given.
ArgValues == {"none", "true", "True", "1", "false"}

\* args.x == 'true' or args.x == 'True' or args.x == '1'
IsSet(arg) == arg = "true" \/ arg = "True" \/ arg = "1"

\* A scrapper made by something else than launch_scrapping.
NotLaunched ==
  [noscrap |-> "none", channelstats |-> "none", stalled_channels |-> {},
   exclude_channels |-> {}, scrap_from_base_calls |-> 0]

\* ------------------------------------------------------------------------
\* Construction: the files of the day are loaded, then the video to channel
\* map is made.
\* ------------------------------------------------------------------------
\* What a previous run of the same day may have left in the folder.
Scenarios ==
  { [world |-> WorldA, scrapped |-> <<>>, channels |-> {}],
    [world |-> WorldA, scrapped |-> <<"x1", "y1">>, channels |-> {"chanX", "chanY"}],
    [world |-> WorldB, scrapped |-> <<>>, channels |-> {}],
    [world |-> WorldC, scrapped |-> <<>>, channels |-> {}],
    [world |-> WorldC, scrapped |-> <<"x1", "z1", "z2", "z3">>,
                       channels |-> {"chanX", "chanZ"}],
    [world |-> WorldCId, scrapped |-> <<"x1", "z1", "z2", "z3">>,
                       channels |-> {"chanX", "chanZ"}],
    [world |-> WorldD, scrapped |-> <<>>, channels |-> {}],
    [world |-> WorldD, scrapped |-> <<"x1", "x2", "x3", "x4", "x5">>,
                       channels |-> {"chanX"}],
    [world |-> WorldE, scrapped |-> <<>>, channels |-> {}],
    [world |-> WorldR, scrapped |-> <<>>, channels |-> {}] }

SeedLists == { <<"chanX">>, <<"chanX", "chanY">>, <<"chanF">> }
RequiredRecosChoices == { REQUIRED_RECOS, 45 }
Blacklists == { {}, {"chanY"}, {"chanX", "chanW"} }

Loaded(sc) ==
  [channel_stats |-> ChannelFile(sc.world, sc.channels),
   api_videos |-> EmptyMap,
   scrapped_videos |-> ScrappedFile(sc.world, sc.scrapped),
   video_to_chan_map |-> EmptyMap,
   disk |-> [all_channels |-> ChannelFile(sc.world, sc.channels),
             api_videos |-> EmptyMap,
             scrapped_videos |-> ScrappedFile(sc.world, sc.scrapped),
             video_to_chan |-> EmptyMap],
   total_channel_stats |-> <<>>,
   do_not_expand_channel_ids |-> {},
   fetch_count |-> [v \in Videos |-> 0],
   expand_count |-> [c \in ChannelIds |-> 0],
   last_expansion |-> [channel |-> "none", cached |-> <<>>, nb_recos |-> 0,
                       required |-> 0, videos_to_get |-> <<>>, expanded |-> <<>>],
   api_max |-> 0,
   save_count |-> 0,
   backend_calls |-> [channels_list |-> [c \in ChannelIds |-> 0],
                      playlist_items |-> [c \in ChannelIds |-> 0],
                      videos_list |-> 0]]

NoIteration ==
  [iteration |-> 0, attempted |-> {}, dne_at_eval |-> {},
   recos_by_id |-> [c \in ChannelIds |-> 0],
   saves_at_begin |-> 0]

Constructed(sc) ==
  /\ world = sc.world
  /\ \E S \in {MakeVideoToChanMap(Loaded(sc))} :
        /\ channel_stats = S.channel_stats
        /\ api_videos = S.api_videos
        /\ scrapped_videos = S.scrapped_videos
        /\ video_to_chan_map = S.video_to_chan_map
        /\ disk = S.disk
        /\ total_channel_stats = S.total_channel_stats
        /\ do_not_expand_channel_ids = S.do_not_expand_channel_ids
        /\ fetch_count = S.fetch_count
        /\ expand_count = S.expand_count
        /\ last_expansion = S.last_expansion
        /\ api_max = S.api_max
        /\ save_count = S.save_count
        /\ backend_calls = S.backend_calls
  /\ base_idx = 1
  /\ number_of_saved_videos = 0
  /\ nb_extra_channels = 0
  /\ sorted_top_channels = <<>>
  /\ channels_with_enough_recos = {}
  /\ cand_idx = 1
  /\ iter_log = NoIteration
  /\ call_log = [v \in Videos |-> <<>>]
  /\ error = "none"
  /\ outputs = [result |-> <<>>, chans |-> <<>>]
  /\ attempt = [the_function |-> "none", status |-> "idle", value |-> "none",
                sleeps |-> 0, log |-> <<>>]
  /\ page = [video |-> "none", reach |-> "always", status |-> "idle",
             failures |-> 0, recos |-> <<>>]
  /\ io = [phase |-> "idle", k |-> 0, open |-> FALSE, partial |-> {},
           flushed |-> disk, crashes |-> 0]

\* A run of scrap_from_base, about to start.
Init ==
  /\ \E sc \in Scenarios : Constructed(sc)
  /\ est = NoEstimate
  /\ NO_SCRAPPING = FALSE
  /\ chan_calls = <<>>
  /\ recent = NoRecentViews
  /\ launch = NotLaunched
  /\ base_channels \in SeedLists
  /\ max_channels \in 0..MaxChannels
  /\ required_recos \in RequiredRecosChoices
  /\ only_scrap_chans_featuring_base \in BOOLEAN
  /\ skip_older_videos \in BOOLEAN
  /\ blacklist \in Blacklists
  /\ pc = "start"

\* ------------------------------------------------------------------------
\* scrap_from_base
\* ------------------------------------------------------------------------
NbApiVideos(S) == Cardinality(DOMAIN S.api_videos)

\* The conditional save with the threshold dropped: a save as soon as one
\* API video is new.
SaveIfAnyNew(S, saved) ==
  IF NbApiVideos(S) > saved THEN SaveVideos(S) ELSE S

\* "Saving if we have enough new videos."
SaveIfEnoughNew(S, saved) ==
  IF NbApiVideos(S) > saved + SAVE_EVERY THEN SaveVideos(S) ELSE S

SavedAfter(S, saved) ==
  IF NbApiVideos(S) > saved + SAVE_EVERY THEN NbApiVideos(S) ELSE saved

\* suscribed_to: the base channels when the filter is on, None otherwise.
SuscribedTo ==
  IF only_scrap_chans_featuring_base THEN Elems(base_channels) ELSE {}

RECURSIVE RecosOfChannelId(_, _, _)
RecosOfChannelId(scrapped, c, i) ==
  IF i > Len(scrapped) THEN 0
  ELSE (IF scrapped[i].channel_id = c THEN Len(scrapped[i].recommendations) ELSE 0)
       + RecosOfChannelId(scrapped, c, i + 1)

\* No slice: the whole ranking.
NbCandidatesAll == Len(sorted_top_channels)

\* The slice cut to the single top channel.
NbCandidatesTopOnly == IF Len(sorted_top_channels) = 0 THEN 0 ELSE 1

\* The slice sorted_top_channels[0:nb_extra_channels].
NbCandidates == IF nb_extra_channels < Len(sorted_top_channels)
                THEN nb_extra_channels ELSE Len(sorted_top_channels)

Start ==
  /\ pc = "start"
  /\ number_of_saved_videos' = Cardinality(DOMAIN api_videos)
  /\ pc' = IF Len(base_channels) = 0 THEN "blacklist" ELSE "base"
  /\ UNCHANGED <<configVars, error, outputs, launch, page, attempt, est, chan_calls, recent, io, channel_stats, api_videos, scrapped_videos,
                 video_to_chan_map, disk, total_channel_stats,
                 do_not_expand_channel_ids, base_idx, nb_extra_channels,
                 sorted_top_channels, channels_with_enough_recos, cand_idx,
                 fetch_count, api_max, backend_calls, save_count, expand_count, last_expansion, iter_log, call_log>>

\* One turn of "for channel in base_channels".
ScrapBaseChannel ==
  /\ pc = "base"
  /\ \E S \in {ScrapTheChannel(Cur, base_channels[base_idx], required_recos, {})} :
        /\ Becomes(SaveIfEnoughNew(S, number_of_saved_videos))
        /\ number_of_saved_videos' = SavedAfter(S, number_of_saved_videos)
  /\ base_idx' = base_idx + 1
  /\ pc' = IF base_idx = Len(base_channels) THEN "blacklist" ELSE "base"
  /\ UNCHANGED <<configVars, error, outputs, launch, page, attempt, est, chan_calls, recent, io, nb_extra_channels, sorted_top_channels,
                 channels_with_enough_recos, cand_idx, iter_log, call_log>>

\* The save after the base channels, then the blacklist is read.
SaveAndLoadBlacklist ==
  /\ pc = "blacklist"
  /\ \E S \in {SaveVideos(Cur)} :
        Becomes([S EXCEPT !.do_not_expand_channel_ids = @ \cup blacklist])
  /\ nb_extra_channels' = 0
  /\ pc' = "loop"
  /\ UNCHANGED <<configVars, error, outputs, launch, page, attempt, est, chan_calls, recent, io, base_idx, number_of_saved_videos, sorted_top_channels,
                 channels_with_enough_recos, cand_idx, iter_log, call_log>>

\* BeginIteration without the count of the iteration.
BeginIterationUncounted ==
  /\ pc = "loop"
  /\ nb_extra_channels + Len(base_channels) < max_channels
  /\ sorted_top_channels' = SortedTopChannels(total_channel_stats)
  /\ channels_with_enough_recos' = GetChannelsWithEnoughRecos(Cur)
  /\ cand_idx' = 1
  /\ iter_log' = [iteration |-> nb_extra_channels,
                  attempted |-> {},
                  dne_at_eval |-> do_not_expand_channel_ids,
                  recos_by_id |-> [c \in ChannelIds |->
                                     RecosOfChannelId(scrapped_videos, c, 1)],
                  saves_at_begin |-> save_count]
  /\ pc' = "cands"
  /\ UNCHANGED <<configVars, error, outputs, launch, page, attempt, est, chan_calls, recent, io, channel_stats, api_videos, scrapped_videos,
                 video_to_chan_map, disk, total_channel_stats,
                 do_not_expand_channel_ids, base_idx, number_of_saved_videos,
                 nb_extra_channels, fetch_count, api_max, backend_calls, save_count, expand_count, last_expansion,
                 call_log>>

\* The loop test holds: the iteration is counted, the tally ranked and the
\* channels with enough recommendations listed.
BeginIteration ==
  /\ pc = "loop"
  /\ nb_extra_channels + Len(base_channels) < max_channels
  /\ nb_extra_channels' = nb_extra_channels + 1
  /\ sorted_top_channels' = SortedTopChannels(total_channel_stats)
  /\ channels_with_enough_recos' = GetChannelsWithEnoughRecos(Cur)
  /\ cand_idx' = 1
  /\ iter_log' = [iteration |-> nb_extra_channels + 1,
                  attempted |-> {},
                  dne_at_eval |-> do_not_expand_channel_ids,
                  recos_by_id |-> [c \in ChannelIds |->
                                     RecosOfChannelId(scrapped_videos, c, 1)],
                  saves_at_begin |-> save_count]
  /\ pc' = "cands"
  /\ UNCHANGED <<configVars, error, outputs, launch, page, attempt, est, chan_calls, recent, io, channel_stats, api_videos, scrapped_videos,
                 video_to_chan_map, disk, total_channel_stats,
                 do_not_expand_channel_ids, base_idx, number_of_saved_videos,
                 fetch_count, api_max, backend_calls, save_count, expand_count, last_expansion, call_log>>

\* The candidate passes the test of the loop body and is handed to scrap_the_channel.
ExpandCandidate ==
  /\ pc = "cands"
  /\ cand_idx <= NbCandidates
  /\ LET channel == sorted_top_channels[cand_idx]
     IN /\ channel \notin channels_with_enough_recos
        /\ channel \notin do_not_expand_channel_ids
        /\ \E S \in {ScrapTheChannel(Cur, channel, required_recos, SuscribedTo)} :
              Becomes(S)
        /\ iter_log' = [iter_log EXCEPT !.attempted = @ \cup {channel}]
  /\ cand_idx' = cand_idx + 1
  /\ UNCHANGED <<configVars, error, outputs, launch, page, attempt, est, chan_calls, recent, io, pc, base_idx, number_of_saved_videos, nb_extra_channels,
                 sorted_top_channels, channels_with_enough_recos, call_log>>

\* The candidate fails the test and is passed over.
SkipCandidate ==
  /\ pc = "cands"
  /\ cand_idx <= NbCandidates
  /\ LET channel == sorted_top_channels[cand_idx]
     IN \/ channel \in channels_with_enough_recos
        \/ channel \in do_not_expand_channel_ids
  /\ cand_idx' = cand_idx + 1
  /\ UNCHANGED <<configVars, error, outputs, launch, page, attempt, est, chan_calls, recent, io, channel_stats, api_videos, scrapped_videos,
                 video_to_chan_map, disk, total_channel_stats,
                 do_not_expand_channel_ids, pc, base_idx, number_of_saved_videos,
                 nb_extra_channels, sorted_top_channels, channels_with_enough_recos,
                 fetch_count, api_max, backend_calls, save_count, expand_count, last_expansion, iter_log, call_log>>

\* The end of the loop body: the conditional save.
EndIteration ==
  /\ pc = "cands"
  /\ cand_idx > NbCandidates
  /\ \E S \in {SaveIfEnoughNew(Cur, number_of_saved_videos)} : Becomes(S)
  /\ number_of_saved_videos' = SavedAfter(Cur, number_of_saved_videos)
  /\ pc' = "loop"
  /\ UNCHANGED <<configVars, error, outputs, launch, page, attempt, est, chan_calls, recent, io, base_idx, nb_extra_channels, sorted_top_channels,
                 channels_with_enough_recos, cand_idx, iter_log, call_log>>

\* The loop left whether or not its test fails.
ExitLoopAnyTime ==
  /\ pc = "loop"
  /\ pc' = "final"
  /\ UNCHANGED <<configVars, error, outputs, launch, page, attempt, est, chan_calls, recent, io, channel_stats, api_videos, scrapped_videos,
                 video_to_chan_map, disk, total_channel_stats,
                 do_not_expand_channel_ids, base_idx, number_of_saved_videos,
                 nb_extra_channels, sorted_top_channels, channels_with_enough_recos,
                 cand_idx, fetch_count, api_max, backend_calls, save_count, expand_count, last_expansion, iter_log,
                 call_log>>

\* The loop test fails.
ExitLoop ==
  /\ pc = "loop"
  /\ ~(nb_extra_channels + Len(base_channels) < max_channels)
  /\ pc' = "final"
  /\ UNCHANGED <<configVars, error, outputs, launch, page, attempt, est, chan_calls, recent, io, channel_stats, api_videos, scrapped_videos,
                 video_to_chan_map, disk, total_channel_stats,
                 do_not_expand_channel_ids, base_idx, number_of_saved_videos,
                 nb_extra_channels, sorted_top_channels, channels_with_enough_recos,
                 cand_idx, fetch_count, api_max, backend_calls, save_count, expand_count, last_expansion, iter_log,
                 call_log>>

\* "Final saving all statistics": get_all_api_data, then save_videos.
FinalSave ==
  /\ pc = "final"
  /\ \E S \in {SaveVideos(GetAllApiData(Cur))} : Becomes(S)
  /\ pc' = "done"
  /\ UNCHANGED <<configVars, error, outputs, launch, page, attempt, est, chan_calls, recent, io, base_idx, number_of_saved_videos, nb_extra_channels,
                 sorted_top_channels, channels_with_enough_recos, cand_idx,
                 iter_log, call_log>>

\* ------------------------------------------------------------------------
\* write_result_file and write_channel_stats, the last two calls of
\* scrap_from_base.
\* ------------------------------------------------------------------------
\* The recommendations of the scrapped videos, in the order the two
\* functions walk them.
RECURSIVE FlatRecos(_, _)
FlatRecos(scrapped, i) ==
  IF i > Len(scrapped) THEN <<>>
  ELSE scrapped[i].recommendations \o FlatRecos(scrapped, i + 1)

\* "d[key] += 1" for the keys lo..hi of a sequence, on a count dictionary.
RECURSIVE CountRange(_, _, _, _)
CountRange(counts, keys, lo, hi) ==
  IF lo > hi THEN counts
  ELSE IF lo = hi THEN LetBe(counts, LAMBDA d : AddCount(d, keys[lo], 1))
  ELSE LetBe(CountRange(counts, keys, lo, (lo + hi) \div 2), LAMBDA mid :
         CountRange(mid, keys, ((lo + hi) \div 2) + 1, hi))

CountKeys(keys) == LetBe(keys, LAMBDA ks : CountRange(<<>>, ks, 1, Len(ks)))

\* int(10000 * number)/100 of the fraction n/d, in hundredths of a percent.
readable_percent(n, d) == (10000 * n) \div d

\* write_result_file: the videos recommended more than once that the store
\* knows, most recommended first (equal counts in the order first met),
\* with the totals.
WriteResultFile(S) ==
  LetBe(FlatRecos(S.scrapped_videos, 1), LAMBDA recos :
  LetBe(CountKeys(recos), LAMBDA videos_to_recos :
  LetBe(SelectSeq(videos_to_recos, LAMBDA e :
          /\ e.count > 1
          /\ e.id \in DOMAIN S.api_videos \/ HasEntry(S.scrapped_videos, e.id)),
        LAMBDA kept :
  LetBe(SortedTopChannels(kept), LAMBDA ids :
    [info_channels |-> [k \in 1..Len(ids) |->
                          [id |-> ids[k],
                           nb_recommendations |-> CountOf(videos_to_recos, ids[k])]],
     total_videos_recommended |-> Len(videos_to_recos),
     total_recommendations |-> Len(recos)]))))

\* write_channel_stats: the share of the recommendations each channel
\* receives.  error names the exception the code raises, "none" if none.
WriteChannelStats(S) ==
  LetBe(FlatRecos(S.scrapped_videos, 1), LAMBDA recos :
  LetBe(SelectSeq(recos, LAMBDA r : r \in DOMAIN S.api_videos), LAMBDA found :
  LetBe(CountKeys([i \in 1..Len(found) |-> S.api_videos[found[i]]]),
        LAMBDA chanid_to_recos :
  LetBe(SortedTopChannels(chanid_to_recos), LAMBDA ranked :
  LetBe(SubSeq(ranked, 1, IF Len(ranked) < TOP_CHANNELS THEN Len(ranked)
                          ELSE TOP_CHANNELS), LAMBDA listed :
    LET total_recos == Len(found)
        recos_small_chans ==
          Cardinality({i \in 1..Len(found) :
                         \A k \in 1..Len(listed) : S.api_videos[found[i]] # listed[k]})
    IN IF \E i \in 1..Len(recos) :
             recos[i] \notin DOMAIN S.api_videos /\ HasEntry(S.scrapped_videos, recos[i])
       THEN \* self._scrapped_videos[reco]['channelId']: the records have no such key
            [error |-> "KeyError", chans |-> <<>>]
       ELSE IF total_recos = 0
       THEN \* recos_small_chans/total_recos
            [error |-> "ZeroDivisionError", chans |-> <<>>]
       ELSE [error |-> "none",
             chans |-> << [names |-> [k \in 1..Len(listed) |-> world.title[listed[k]]],
                           percent_recos |-> [k \in 1..Len(listed) |->
                              readable_percent(CountOf(chanid_to_recos, listed[k]),
                                               total_recos)],
                           percent_other_channels |->
                              readable_percent(recos_small_chans, total_recos)] >>])))))

\* The result file is written, then the channel-share file; an exception
\* of write_channel_stats ends the run.
WriteOutputs ==
  /\ pc = "done"
  /\ \E r \in {WriteChannelStats(Cur)} :
        /\ error' = r.error
        /\ outputs' = [result |-> <<WriteResultFile(Cur)>>, chans |-> r.chans]
        /\ pc' = IF r.error = "none" THEN "written" ELSE "crashed"
  /\ UNCHANGED <<world, NO_SCRAPPING, base_channels, max_channels, required_recos,
                 only_scrap_chans_featuring_base, skip_older_videos, blacklist,
                 io, attempt, est, chan_calls, recent, launch, page, channel_stats, api_videos, scrapped_videos,
                 video_to_chan_map, disk, total_channel_stats,
                 do_not_expand_channel_ids, base_idx, number_of_saved_videos,
                 nb_extra_channels, sorted_top_channels, channels_with_enough_recos,
                 cand_idx, fetch_count, api_max, backend_calls, save_count, expand_count,
                 last_expansion, iter_log, call_log>>

Next ==
  \/ Start
  \/ ScrapBaseChannel
  \/ SaveAndLoadBlacklist
  \/ BeginIteration
  \/ ExpandCandidate
  \/ SkipCandidate
  \/ EndIteration
  \/ ExitLoop
  \/ FinalSave
  \/ WriteOutputs

Spec == Init /\ [][Next]_vars

\* The run is scheduled: a step that can be taken is taken.
FairSpec == Spec /\ WF_vars(Next)

\* ------------------------------------------------------------------------
\* Runs of scrap_from_base large enough for the periodic save: an empty
\* store, worlds with videos in bulk, and required_recos up to the whole
\* of a channel's uploads.
\* ------------------------------------------------------------------------
BulkScenarios ==
  { [world |-> WorldQ, scrapped |-> <<>>, channels |-> {}],
    [world |-> WorldL, scrapped |-> <<>>, channels |-> {}] }

BulkSeedLists == { <<"chanX">>, <<"chanX", "chanY", "chanZ", "chanW">> }
BulkRequiredRecosChoices == { 45, 510 }

InitBulk ==
  /\ \E sc \in BulkScenarios : Constructed(sc)
  /\ est = NoEstimate
  /\ NO_SCRAPPING = FALSE
  /\ chan_calls = <<>>
  /\ recent = NoRecentViews
  /\ launch = NotLaunched
  /\ base_channels \in BulkSeedLists
  /\ max_channels \in 0..MaxChannels
  /\ required_recos \in BulkRequiredRecosChoices
  /\ only_scrap_chans_featuring_base \in BOOLEAN
  /\ skip_older_videos \in BOOLEAN
  /\ blacklist \in Blacklists
  /\ pc = "start"

SpecBulk == InitBulk /\ [][Next]_vars

\* ------------------------------------------------------------------------
\* The video expander on its own: a caller that asks get_recommendations
\* for videos of its choice, at most MaxCalls times each.
\* ------------------------------------------------------------------------
ProbeVideos == {"x1", "y1", "y2", "w1"}

InitExpander ==
  /\ \E sc \in Scenarios : Constructed(sc)
  /\ est = NoEstimate
  /\ NO_SCRAPPING = FALSE
  /\ chan_calls = <<>>
  /\ recent = NoRecentViews
  /\ launch = NotLaunched
  /\ base_channels = <<"chanX">>
  /\ max_channels = 1
  /\ required_recos = REQUIRED_RECOS
  /\ only_scrap_chans_featuring_base = FALSE
  /\ skip_older_videos \in BOOLEAN
  /\ blacklist = {}
  /\ pc = "expander"

CallGetRecommendations ==
  /\ pc = "expander"
  /\ \E v \in ProbeVideos :
       /\ Len(call_log[v]) < MaxCalls
       /\ \E r \in {GetRecommendations(Cur, v)} :
             /\ Becomes(r.S)
             /\ call_log' = [call_log EXCEPT ![v] =
                  Append(@, [recos |-> r.recos,
                             fetched |-> r.S.fetch_count[v] > fetch_count[v]])]
  /\ UNCHANGED <<configVars, error, outputs, launch, page, attempt, est, chan_calls, recent, io, pc, base_idx, number_of_saved_videos, nb_extra_channels,
                 sorted_top_channels, channels_with_enough_recos, cand_idx, iter_log>>

NextExpander == CallGetRecommendations

SpecExpander == InitExpander /\ [][NextExpander]_vars

\* ------------------------------------------------------------------------
\* try_to_do on its own: a caller wraps one of the API functions; the
\* backend answers each attempt with a response or with an exception.
\*   attempt.status  "idle", "trying", "sleeping", "returned", "raised"
\*   attempt.value   what try_to_do returned
\*   attempt.log     what the_function did at each attempt
\* ------------------------------------------------------------------------
WrappedFunctions ==
  {"channels_list_by_id_try", "playlists_list_by_id_try",
   "videos_list_multiple_ids_try", "search_list_related_videos_try",
   "search_list_by_keyword_try"}

\* The exceptions the_function raises, all of class Exception: the API's
\* refusals and the failures of the network.
BackendExceptions(f) ==
  {"quotaExceeded", "ConnectionError"}
    \cup (IF f = "playlists_list_by_id_try" THEN {"playlistNotFound"} ELSE {})

\* What the_function returns when it does not raise.
ReturnValues(f) ==
  {"response"} \cup (IF f = "channels_list_by_id_try" THEN {"None"} ELSE {})

\* "... playlistId</code> parameter cannot be found." in repr(e)
IsPlaylistNotFound(e) == e = "playlistNotFound"

\* The except clause with the exception passed on to the caller unless it
\* is the playlist error.
HandleExceptionReraise(a, e) ==
  IF IsPlaylistNotFound(e)
  THEN [a EXCEPT !.status = "returned", !.value = "None"]
  ELSE [a EXCEPT !.status = "raised"]

\* The except clause with every exception taken for the playlist error.
HandleExceptionGiveUp(a, e) ==
  [a EXCEPT !.status = "returned", !.value = "None"]

\* The except clause of try_to_do.
HandleException(a, e) ==
  IF IsPlaylistNotFound(e)
  THEN [a EXCEPT !.status = "returned", !.value = "None"]
  ELSE [a EXCEPT !.status = "sleeping"]

Failures(log) == Cardinality({i \in 1..Len(log) : log[i].outcome = "raise"})

InitTry ==
  /\ Constructed([world |-> WorldA, scrapped |-> <<>>, channels |-> {}])
  /\ est = NoEstimate
  /\ NO_SCRAPPING = FALSE
  /\ chan_calls = <<>>
  /\ recent = NoRecentViews
  /\ launch = NotLaunched
  /\ base_channels = <<"chanX">>
  /\ max_channels = 1
  /\ required_recos = REQUIRED_RECOS
  /\ only_scrap_chans_featuring_base = FALSE
  /\ skip_older_videos = FALSE
  /\ blacklist = {}
  /\ pc = "try"

TryUnchanged ==
  UNCHANGED <<configVars, error, outputs, launch, page, est, chan_calls, recent, io, channel_stats, api_videos,
              scrapped_videos, video_to_chan_map, disk, total_channel_stats,
              do_not_expand_channel_ids, pc, base_idx, number_of_saved_videos,
              nb_extra_channels, sorted_top_channels, channels_with_enough_recos,
              cand_idx, fetch_count, api_max, backend_calls, save_count, expand_count,
              last_expansion, iter_log, call_log>>

\* One of the wrappers calls try_to_do.
CallTryToDo ==
  /\ pc = "try"
  /\ attempt.status = "idle"
  /\ \E f \in WrappedFunctions :
        attempt' = [attempt EXCEPT !.the_function = f, !.status = "trying"]
  /\ TryUnchanged

\* "return the_function(**kwargs)": the function returns.
AttemptReturns ==
  /\ pc = "try"
  /\ attempt.status = "trying"
  /\ \E v \in ReturnValues(attempt.the_function) :
        attempt' = [attempt EXCEPT !.status = "returned", !.value = v,
                      !.log = Append(@, [outcome |-> "return", what |-> v])]
  /\ TryUnchanged

\* The function raises and the except clause runs.
AttemptRaises ==
  /\ pc = "try"
  /\ attempt.status = "trying"
  /\ Failures(attempt.log) < MaxFailures
  /\ \E e \in BackendExceptions(attempt.the_function) :
        attempt' = HandleException(
                     [attempt EXCEPT !.log = Append(@, [outcome |-> "raise", what |-> e])],
                     e)
  /\ TryUnchanged

\* time.sleep(30) is over: the loop turns.
SleepOver ==
  /\ pc = "try"
  /\ attempt.status = "sleeping"
  /\ attempt' = [attempt EXCEPT !.status = "trying", !.sleeps = @ + 1]
  /\ TryUnchanged

NextTry ==
  \/ CallTryToDo
  \/ AttemptReturns
  \/ AttemptRaises
  \/ SleepOver

SpecTry == InitTry /\ [][NextTry]_vars

\* The process runs, and time passes: the call in progress goes on.
FairSpecTry == SpecTry /\ WF_vars(NextTry)

\* ------------------------------------------------------------------------
\* The estimator of compute_recent_files on its own, one step of its loops
\* at a time.
\*   est.phase  "loaded", "scan" (between two videos), "first" (the outer
\*              while), "second" (the inner while), "estimated"
\* ------------------------------------------------------------------------
InitEstimator ==
  /\ Constructed([world |-> WorldA, scrapped |-> <<>>, channels |-> {}])
  /\ est \in EstimatorInputs
  /\ NO_SCRAPPING = FALSE
  /\ chan_calls = <<>>
  /\ recent = NoRecentViews
  /\ launch = NotLaunched
  /\ base_channels = <<"chanX">>
  /\ max_channels = 1
  /\ required_recos = REQUIRED_RECOS
  /\ only_scrap_chans_featuring_base = FALSE
  /\ skip_older_videos = FALSE
  /\ blacklist = {}
  /\ pc = "estimator"

EstimatorUnchanged ==
  UNCHANGED <<configVars, error, outputs, launch, page, attempt, chan_calls, recent, io, channel_stats, api_videos,
              scrapped_videos, video_to_chan_map, disk, total_channel_stats,
              do_not_expand_channel_ids, pc, base_idx, number_of_saved_videos,
              nb_extra_channels, sorted_top_channels, channels_with_enough_recos,
              cand_idx, fetch_count, api_max, backend_calls, save_count, expand_count,
              last_expansion, iter_log, call_log>>

\* The records without a title are deleted from every snapshot.
DeleteEmptyRecords ==
  /\ est.phase = "loaded"
  /\ est' = [est EXCEPT
       !.scrapped_videos = [i \in 1..Len(rdates) |-> DeleteEmpty(@[i])],
       !.todo = est.all_scrapped_vids,
       !.phase = "scan"]
  /\ EstimatorUnchanged

\* "for v in all_scrapped_vids": the next video, in the order of the set.
NextVideo ==
  /\ est.phase = "scan"
  /\ \E v \in est.todo :
        est' = [est EXCEPT !.v = v, !.todo = @ \ {v}, !.first_index = 0,
                           !.phase = "first"]
  /\ EstimatorUnchanged

\* The outer while: the video is not in the snapshot at first_index.
SkipFirst ==
  /\ est.phase = "first"
  /\ est.first_index < Len(rdates) - 1
  /\ est.v \notin DOMAIN SnapshotAt(est, est.first_index)
  /\ est' = [est EXCEPT !.first_index = @ + 1]
  /\ EstimatorUnchanged

\* The outer while: a first observation is found.
FoundFirst ==
  /\ est.phase = "first"
  /\ est.first_index < Len(rdates) - 1
  /\ est.v \in DOMAIN SnapshotAt(est, est.first_index)
  /\ est' = [est EXCEPT !.second_index = SecondStart(est.first_index),
                        !.phase = "second"]
  /\ EstimatorUnchanged

\* The inner while left with first_index as it was.
NoSecondFirstKept ==
  /\ est.phase = "second"
  /\ est.second_index >= Len(rdates)
  /\ est' = [est EXCEPT !.phase = "first"]
  /\ EstimatorUnchanged

\* The inner while: "Couldn't find a second date. Let's break both loops."
NoSecond ==
  /\ est.phase = "second"
  /\ est.second_index >= Len(rdates)
  /\ est' = [est EXCEPT !.first_index = Len(rdates), !.phase = "first"]
  /\ EstimatorUnchanged

\* The inner while: the video is not in the snapshot at second_index.
SkipSecond ==
  /\ est.phase = "second"
  /\ est.second_index < Len(rdates)
  /\ est.v \notin DOMAIN SnapshotAt(est, est.second_index)
  /\ est' = [est EXCEPT !.second_index = @ + 1]
  /\ EstimatorUnchanged

\* The inner while: a second observation is found and compared with the first.
Attribute ==
  /\ est.phase = "second"
  /\ est.second_index < Len(rdates)
  /\ est.v \in DOMAIN SnapshotAt(est, est.second_index)
  /\ est' = Attributed(est)
  /\ EstimatorUnchanged

\* The outer while ends for this video.
VideoDone ==
  /\ est.phase = "first"
  /\ ~(est.first_index < Len(rdates) - 1)
  /\ est' = [est EXCEPT !.phase = IF est.todo = {} THEN "estimated" ELSE "scan"]
  /\ EstimatorUnchanged

\* No video was scrapped at any date: the loop over the videos is empty.
NothingToScan ==
  /\ est.phase = "scan"
  /\ est.todo = {}
  /\ est' = [est EXCEPT !.phase = "estimated"]
  /\ EstimatorUnchanged

NextEstimator ==
  \/ DeleteEmptyRecords
  \/ NextVideo
  \/ SkipFirst
  \/ FoundFirst
  \/ NoSecond
  \/ SkipSecond
  \/ Attribute
  \/ VideoDone
  \/ NothingToScan

SpecEstimator == InitEstimator /\ [][NextEstimator]_vars

\* The loops of the estimator run on: nothing in them waits.
FairSpecEstimator == SpecEstimator /\ WF_vars(NextEstimator)

\* ------------------------------------------------------------------------
\* launch_scrapping from the point where the scrapper is made (the set is
\* known, --onlycomputerecent is not given, searches_to_add is empty):
\* the options --channelstats and --noscrap, the seeds filtered, then
\* scrap_from_base.
\*   pc  "launch", "prepare" (past the two options), "returned", then the
\*       values of a run of scrap_from_base
\* ------------------------------------------------------------------------
StalledChoices == { {}, {"chanY"} }
ExcludeChoices == { {}, {"chanX"} }

InitLaunch ==
  /\ \E sc \in Scenarios : Constructed(sc)
  /\ est = NoEstimate
  /\ NO_SCRAPPING = FALSE
  /\ chan_calls = <<>>
  /\ recent = NoRecentViews
  /\ launch \in { [NotLaunched EXCEPT !.noscrap = n, !.channelstats = c,
                                      !.stalled_channels = st,
                                      !.exclude_channels = ex] :
                  n \in ArgValues, c \in {"none", "true"},
                  st \in StalledChoices, ex \in ExcludeChoices }
  /\ base_channels = <<"chanX", "chanY">>
  /\ max_channels \in {0, MaxChannels}
  /\ required_recos = REQUIRED_RECOS
  /\ only_scrap_chans_featuring_base = FALSE
  /\ skip_older_videos = TRUE
  /\ blacklist = {}
  /\ pc = "launch"

LaunchUnchanged ==
  UNCHANGED <<world, NO_SCRAPPING, max_channels, required_recos, only_scrap_chans_featuring_base,
              skip_older_videos, blacklist, error, attempt, est, chan_calls, recent, page, io,
              channel_stats, api_videos, scrapped_videos, video_to_chan_map, disk,
              total_channel_stats, do_not_expand_channel_ids, base_idx,
              number_of_saved_videos, nb_extra_channels, sorted_top_channels,
              channels_with_enough_recos, cand_idx, fetch_count, api_max, backend_calls,
              save_count, expand_count, last_expansion, iter_log, call_log>>

\* --channelstats: the result file is written and launch_scrapping returns.
ChannelStatsOnly ==
  /\ pc = "launch"
  /\ IsSet(launch.channelstats)
  /\ outputs' = [outputs EXCEPT !.result = <<WriteResultFile(Cur)>>]
  /\ pc' = "returned"
  /\ UNCHANGED <<base_channels, launch>>
  /\ LaunchUnchanged

\* --noscrap: the result file is written; the statement that follows is
\* the bare name "exit", which calls nothing, and the function goes on.
NoScrapWriteResult ==
  /\ pc = "launch"
  /\ ~IsSet(launch.channelstats)
  /\ IsSet(launch.noscrap)
  /\ outputs' = [outputs EXCEPT !.result = <<WriteResultFile(Cur)>>]
  /\ pc' = "prepare"
  /\ UNCHANGED <<base_channels, launch>>
  /\ LaunchUnchanged

\* Neither option is set.
NoOptionSet ==
  /\ pc = "launch"
  /\ ~IsSet(launch.channelstats)
  /\ ~IsSet(launch.noscrap)
  /\ pc' = "prepare"
  /\ UNCHANGED <<base_channels, launch, outputs>>
  /\ LaunchUnchanged

\* The stalled and the excluded channels are removed from the seeds and
\* scrap_from_base is called.
CallScrapFromBase ==
  /\ pc = "prepare"
  /\ base_channels' = SelectSeq(base_channels, LAMBDA c :
                         c \notin launch.stalled_channels
                         /\ c \notin launch.exclude_channels)
  /\ launch' = [launch EXCEPT !.scrap_from_base_calls = @ + 1]
  /\ pc' = "start"
  /\ UNCHANGED outputs
  /\ LaunchUnchanged

NextLaunch ==
  \/ ChannelStatsOnly
  \/ NoScrapWriteResult
  \/ NoOptionSet
  \/ CallScrapFromBase
  \/ Next

SpecLaunch == InitLaunch /\ [][NextLaunch]_vars

\* ------------------------------------------------------------------------
\* get_recommendations with the loop that asks for the watch page:
\* "Until we succeed, try to access the video page".
\*   page.reach     "always": urlopen answers at once; "later": it fails at
\*                  most MaxFailures times; "never": it fails at every try
\*   page.status    "idle", "trying", "sleeping", "returned"
\*   page.failures  the tries that failed, counted up to MaxFailures
\* ------------------------------------------------------------------------
Reachability == {"always", "later", "never"}

InitFetch ==
  /\ \E sc \in Scenarios : Constructed(sc)
  /\ est = NoEstimate
  /\ NO_SCRAPPING = FALSE
  /\ chan_calls = <<>>
  /\ recent = NoRecentViews
  /\ launch = NotLaunched
  /\ base_channels = <<"chanX">>
  /\ max_channels = 1
  /\ required_recos = REQUIRED_RECOS
  /\ only_scrap_chans_featuring_base = FALSE
  /\ skip_older_videos \in BOOLEAN
  /\ blacklist = {}
  /\ pc = "fetch"

FetchUnchanged ==
  UNCHANGED <<configVars, error, outputs, launch, attempt, est, chan_calls, recent, io, pc, base_idx,
              number_of_saved_videos, nb_extra_channels, sorted_top_channels,
              channels_with_enough_recos, cand_idx, iter_log>>

StoreUnchanged ==
  UNCHANGED <<channel_stats, api_videos, scrapped_videos, video_to_chan_map, disk,
              total_channel_stats, do_not_expand_channel_ids, fetch_count, api_max, backend_calls,
              save_count, expand_count, last_expansion, call_log>>

\* get_recommendations is called: a video of the store is answered from
\* the store, for any other the page is asked for.
RequestPage ==
  /\ pc = "fetch"
  /\ page.status = "idle"
  /\ \E v \in ProbeVideos, r \in Reachability :
        page' = IF HasEntry(scrapped_videos, v)
                THEN [page EXCEPT !.video = v, !.reach = r, !.status = "returned",
                        !.recos = Entry(scrapped_videos, v).recommendations]
                ELSE [page EXCEPT !.video = v, !.reach = r, !.status = "trying"]
  /\ FetchUnchanged
  /\ StoreUnchanged

\* urlopen raises: the exception is printed and the loop sleeps a second.
FetchFails ==
  /\ pc = "fetch"
  /\ page.status = "trying"
  /\ \/ page.reach = "never"
     \/ page.reach = "later" /\ page.failures < MaxFailures
  /\ page' = [page EXCEPT !.status = "sleeping",
                !.failures = IF @ < MaxFailures THEN @ + 1 ELSE @]
  /\ FetchUnchanged
  /\ StoreUnchanged

\* time.sleep(1) is over: the loop turns.
RetryFetch ==
  /\ pc = "fetch"
  /\ page.status = "sleeping"
  /\ page' = [page EXCEPT !.status = "trying"]
  /\ FetchUnchanged
  /\ StoreUnchanged

\* urlopen answers: the page is read and get_recommendations returns.
FetchSucceeds ==
  /\ pc = "fetch"
  /\ page.status = "trying"
  /\ page.reach # "never"
  /\ \E r \in {GetRecommendations(Cur, page.video)} :
        /\ Becomes(r.S)
        /\ page' = [page EXCEPT !.status = "returned", !.recos = r.recos]
        /\ call_log' = [call_log EXCEPT ![page.video] =
             Append(@, [recos |-> r.recos, fetched |-> TRUE])]
  /\ FetchUnchanged

NextFetch ==
  \/ RequestPage
  \/ FetchFails
  \/ RetryFetch
  \/ FetchSucceeds

\* The process runs: a step that can be taken is taken.
SpecFetch == InitFetch /\ [][NextFetch]_vars /\ WF_vars(NextFetch)

\* ------------------------------------------------------------------------
\* scrap_the_channel called on its own, on any channel and again on the
\* same one, with scrapping switched on or off.
\* ------------------------------------------------------------------------
InitChannel ==
  /\ \E sc \in Scenarios : Constructed(sc)
  /\ est = NoEstimate
  /\ NO_SCRAPPING \in BOOLEAN
  /\ chan_calls = <<>>
  /\ recent = NoRecentViews
  /\ launch = NotLaunched
  /\ base_channels = <<"chanX">>
  /\ max_channels = 1
  /\ required_recos = REQUIRED_RECOS
  /\ only_scrap_chans_featuring_base \in BOOLEAN
  /\ skip_older_videos \in BOOLEAN
  /\ blacklist = {}
  /\ pc = "channel"

CallScrapTheChannel ==
  /\ pc = "channel"
  /\ Len(chan_calls) < MaxChannelCalls
  /\ \E c \in ChannelIds :
        /\ \E S \in {ScrapTheChannel(Cur, c, required_recos, SuscribedTo)} : Becomes(S)
        /\ chan_calls' = Append(chan_calls, c)
  /\ UNCHANGED <<configVars, error, outputs, launch, page, attempt, est, recent, io, pc, base_idx,
                 number_of_saved_videos, nb_extra_channels, sorted_top_channels,
                 channels_with_enough_recos, cand_idx, iter_log, call_log>>

NextChannel == CallScrapTheChannel

SpecChannel == InitChannel /\ [][NextChannel]_vars

\* ------------------------------------------------------------------------
\* compute_recent_views(dayz), for one video
\* ------------------------------------------------------------------------
\* Giving up on one video ("continue") and reading a date that is not there.
RecentUnchanged ==
  UNCHANGED <<configVars, error, outputs, launch, page, attempt, est, chan_calls, io,
              channel_stats, api_videos, scrapped_videos, video_to_chan_map, disk,
              total_channel_stats, do_not_expand_channel_ids, pc, base_idx,
              number_of_saved_videos, nb_extra_channels, sorted_top_channels,
              channels_with_enough_recos, cand_idx, fetch_count, api_max, backend_calls,
              save_count, expand_count, last_expansion, iter_log, call_log>>

\* The video is missing or has no publish date: it is counted as missing
\* and given no value.
MissingFromApi ==
  /\ recent.phase = "history"
  /\ ~InApiVideos(recent) \/ recent.pub_date = <<>>
  /\ recent' = [recent EXCEPT !.missing = @ + 1, !.phase = "done"]
  /\ RecentUnchanged

\* dates[dayz] when there are no more than dayz dates.
NoSuchDate ==
  /\ recent.phase = "history"
  /\ InApiVideos(recent) /\ recent.pub_date # <<>>
  /\ recent.dayz >= Len(recent.dates)
  /\ recent' = [recent EXCEPT !.phase = "crashed", !.error = "IndexError"]
  /\ RecentUnchanged

\* "If the video was published during the period, the increase is the max view"
PublishedInPeriod ==
  /\ recent.phase = "history"
  /\ InApiVideos(recent) /\ recent.pub_date # <<>>
  /\ recent.dayz < Len(recent.dates)
  /\ NotBefore(recent.pub_date, invert_date(recent.dates[recent.dayz + 1]))
  /\ LET tmp_views == MaxOf(LastDays(recent.view_history, recent.dayz))
     IN recent' = [recent EXCEPT
                     !.recent_views = IF tmp_views > 0 THEN <<tmp_views>> ELSE @,
                     !.phase = "done"]
  /\ RecentUnchanged

\* "If the video was published before"
PublishedBefore ==
  /\ recent.phase = "history"
  /\ InApiVideos(recent) /\ recent.pub_date # <<>>
  /\ recent.dayz < Len(recent.dates)
  /\ ~NotBefore(recent.pub_date, invert_date(recent.dates[recent.dayz + 1]))
  /\ LET maxi == MaxOf(LastDays(recent.view_history, recent.dayz))
     IN recent' = [recent EXCEPT
                     !.recent_views =
                        IF maxi <= 0 THEN @
                        ELSE <<maxi - MinPositive(LastDays(recent.view_history, recent.dayz))>>,
                     !.phase = "done"]
  /\ RecentUnchanged

\* The view history is read off the files of the dates, oldest date first.
ViewHistory ==
  /\ recent.phase = "loaded"
  /\ recent' = [recent EXCEPT
                  !.view_history = [i \in 1..Len(recent.dates) |->
                     ObservedViews(recent.at[Len(recent.dates) + 1 - i])],
                  !.phase = "history"]
  /\ RecentUnchanged

InitRecentViews ==
  /\ \E sc \in {[world |-> WorldA, scrapped |-> <<>>, channels |-> {}]} : Constructed(sc)
  /\ est = NoEstimate
  /\ NO_SCRAPPING = FALSE
  /\ chan_calls = <<>>
  /\ recent \in RecentInputs
  /\ launch = NotLaunched
  /\ base_channels = <<"chanX">>
  /\ max_channels = 1
  /\ required_recos = REQUIRED_RECOS
  /\ only_scrap_chans_featuring_base = FALSE
  /\ skip_older_videos = TRUE
  /\ blacklist = {}
  /\ pc = "recent"

NextRecentViews ==
  \/ ViewHistory
  \/ MissingFromApi
  \/ NoSuchDate
  \/ PublishedInPeriod
  \/ PublishedBefore

SpecRecentViews == InitRecentViews /\ [][NextRecentViews]_vars

\* ------------------------------------------------------------------------
\* save_videos file by file, with the process killed while it runs and
\* started again: saveToFile opens the file for writing, which empties it,
\* and json.dump then writes the dictionary; loadFromFile answers {} for a
\* file json.load cannot read.
\*   io.phase    "idle", "saving", "down" (killed), "restarted"
\*   io.k        the file save_videos is at, as an index of Files
\*   io.open     the file is open for writing and not yet written
\*   io.partial  the files left without a complete JSON text
\*   io.flushed  what the files held when save_videos last completed
\* ------------------------------------------------------------------------
Files == <<"all_channels", "api_videos", "scrapped_videos", "video_to_chan">>

\* The dictionary save_videos writes to a file.
MemoryOf(f) ==
  CASE f = "all_channels"    -> channel_stats
    [] f = "api_videos"      -> api_videos
    [] f = "scrapped_videos" -> scrapped_videos
    [] OTHER                 -> video_to_chan_map

\* loadFromFile
LoadFromFile(f) == IF f \in io.partial THEN EmptyMap ELSE disk[f]

InitSaver ==
  /\ \E sc \in Scenarios : Constructed(sc)
  /\ est = NoEstimate
  /\ NO_SCRAPPING = FALSE
  /\ chan_calls = <<>>
  /\ recent = NoRecentViews
  /\ launch = NotLaunched
  /\ base_channels = <<"chanX">>
  /\ max_channels = 1
  /\ required_recos = REQUIRED_RECOS
  /\ only_scrap_chans_featuring_base = FALSE
  /\ skip_older_videos \in BOOLEAN
  /\ blacklist = {}
  /\ pc = "saver"

\* The crawler works: a channel is expanded.
SaverWork ==
  /\ pc = "saver"
  /\ io.phase \in {"idle", "restarted"}
  /\ \E c \in {"chanX", "chanY"} \ do_not_expand_channel_ids :
        \E S \in {ScrapTheChannel(Cur, c, required_recos, {})} : Becomes(S)
  /\ io' = [io EXCEPT !.phase = "idle"]
  /\ UNCHANGED <<configVars, error, outputs, launch, page, attempt, est, chan_calls, recent, pc, base_idx, number_of_saved_videos,
                 nb_extra_channels, sorted_top_channels, channels_with_enough_recos,
                 cand_idx, iter_log, call_log>>

\* save_videos is entered.
BeginSave ==
  /\ pc = "saver"
  /\ io.phase \in {"idle", "restarted"}
  /\ save_count < MaxSaves
  /\ io' = [io EXCEPT !.phase = "saving", !.k = 1, !.open = FALSE]
  /\ UNCHANGED <<configVars, error, outputs, launch, page, attempt, est, chan_calls, recent, channel_stats, api_videos, scrapped_videos,
                 video_to_chan_map, disk, total_channel_stats,
                 do_not_expand_channel_ids, pc, base_idx, number_of_saved_videos,
                 nb_extra_channels, sorted_top_channels, channels_with_enough_recos,
                 cand_idx, fetch_count, api_max, backend_calls, save_count, expand_count,
                 last_expansion, iter_log, call_log>>

\* saveToFile: open(filename + '.json', 'w') empties the file.
OpenFile ==
  /\ pc = "saver"
  /\ io.phase = "saving"
  /\ ~io.open
  /\ io' = [io EXCEPT !.open = TRUE, !.partial = @ \cup {Files[io.k]}]
  /\ UNCHANGED <<configVars, error, outputs, launch, page, attempt, est, chan_calls, recent, channel_stats, api_videos, scrapped_videos,
                 video_to_chan_map, disk, total_channel_stats,
                 do_not_expand_channel_ids, pc, base_idx, number_of_saved_videos,
                 nb_extra_channels, sorted_top_channels, channels_with_enough_recos,
                 cand_idx, fetch_count, api_max, backend_calls, save_count, expand_count,
                 last_expansion, iter_log, call_log>>

\* saveToFile: json.dump writes the dictionary and the file is closed; after
\* the fourth file save_videos returns.
DumpFile ==
  /\ pc = "saver"
  /\ io.phase = "saving"
  /\ io.open
  /\ disk' = [disk EXCEPT ![Files[io.k]] = MemoryOf(Files[io.k])]
  /\ io' = IF io.k = Len(Files)
           THEN [io EXCEPT !.phase = "idle", !.k = 0, !.open = FALSE,
                           !.partial = @ \ {Files[io.k]}, !.flushed = disk']
           ELSE [io EXCEPT !.k = @ + 1, !.open = FALSE,
                           !.partial = @ \ {Files[io.k]}]
  /\ save_count' = IF io.k = Len(Files) THEN save_count + 1 ELSE save_count
  /\ UNCHANGED <<configVars, error, outputs, launch, page, attempt, est, chan_calls, recent, channel_stats, api_videos, scrapped_videos,
                 video_to_chan_map, total_channel_stats,
                 do_not_expand_channel_ids, pc, base_idx, number_of_saved_videos,
                 nb_extra_channels, sorted_top_channels, channels_with_enough_recos,
                 cand_idx, fetch_count, api_max, backend_calls, expand_count,
                 last_expansion, iter_log, call_log>>

\* The process is killed while save_videos runs.
Crash ==
  /\ pc = "saver"
  /\ io.phase = "saving"
  /\ io.crashes < MaxCrashes
  /\ io' = [io EXCEPT !.phase = "down", !.k = 0, !.open = FALSE, !.crashes = @ + 1]
  /\ UNCHANGED <<configVars, error, outputs, launch, page, attempt, est, chan_calls, recent, channel_stats, api_videos, scrapped_videos,
                 video_to_chan_map, disk, total_channel_stats,
                 do_not_expand_channel_ids, pc, base_idx, number_of_saved_videos,
                 nb_extra_channels, sorted_top_channels, channels_with_enough_recos,
                 cand_idx, fetch_count, api_max, backend_calls, save_count, expand_count,
                 last_expansion, iter_log, call_log>>

\* The program is started again: __init__ loads the four files and runs
\* make_video_to_chan_map, which rewrites the video to channel file.
Restart ==
  /\ pc = "saver"
  /\ io.phase = "down"
  /\ \E S \in {MakeVideoToChanMap(
                  [Cur EXCEPT !.channel_stats = LoadFromFile("all_channels"),
                              !.api_videos = LoadFromFile("api_videos"),
                              !.scrapped_videos = LoadFromFile("scrapped_videos"),
                              !.video_to_chan_map = LoadFromFile("video_to_chan"),
                              !.total_channel_stats = <<>>,
                              !.do_not_expand_channel_ids = {}])} : Becomes(S)
  /\ io' = [io EXCEPT !.phase = "restarted", !.partial = @ \ {"video_to_chan"}]
  /\ UNCHANGED <<configVars, error, outputs, launch, page, attempt, est, chan_calls, recent, pc, base_idx, number_of_saved_videos,
                 nb_extra_channels, sorted_top_channels, channels_with_enough_recos,
                 cand_idx, iter_log, call_log>>

NextSaver ==
  \/ SaverWork
  \/ BeginSave
  \/ OpenFile
  \/ DumpFile
  \/ Crash
  \/ Restart

SpecSaver == InitSaver /\ [][NextSaver]_vars

\* ------------------------------------------------------------------------
\* Properties
\* ------------------------------------------------------------------------

\* C1: whatever the first call of get_recommendations on a video did, the
\* next call on the same video returns the same list and fetches no page.
C1_IdempotentExpansion ==
  \A v \in Videos : \A i \in 1..(Len(call_log[v]) - 1) :
     /\ call_log[v][i + 1].recos = call_log[v][i].recos
     /\ ~call_log[v][i + 1].fetched

\* The channels the run expanded that are no seed.
NonSeedExpanded == {c \in ChannelIds : expand_count[c] > 0} \ Elems(base_channels)

\* C2: when scrap_from_base is done and max_channels is at least the number
\* of seeds, the non-seed channels expanded plus the seeds are at most
\* max_channels.
C2_BudgetRespected ==
  (pc = "done" /\ max_channels >= Len(base_channels))
    => Cardinality(NonSeedExpanded) + Len(base_channels) <= max_channels

\* C3: with max_channels at least the number of seeds, the snowball loop
\* ends and the run reaches its final save.
C3_LoopTerminates ==
  (max_channels >= Len(base_channels)) => <>(pc = "done")

C3_Witness ==
  /\ pc = "done"
  /\ max_channels >= Len(base_channels)
  /\ nb_extra_channels >= 2
  /\ disk.scrapped_videos = scrapped_videos

\* C4: the uploads of a channel are expanded at most once in a run, and a
\* channel in the do-not-expand set is not expanded by any later step.
C4_ExpandedAtMostOnce ==
  [][\A c \in ChannelIds :
       /\ expand_count'[c] <= 1
       /\ (c \in do_not_expand_channel_ids => expand_count'[c] = expand_count[c])]_vars

\* A channel expanded earlier came up as a candidate again and was passed over.
C4_Witness ==
  /\ pc = "cands"
  /\ cand_idx > 1
  /\ cand_idx - 1 <= Len(sorted_top_channels)
  /\ LET c == sorted_top_channels[cand_idx - 1]
     IN /\ expand_count[c] = 1
        /\ c \notin iter_log.attempted
        /\ c \in iter_log.dne_at_eval

\* C5: a blacklisted channel is never expanded, seed or not.
C5_BlacklistedNeverExpanded ==
  \A c \in blacklist : expand_count[c] = 0

\* The candidates of the current iteration have all had their turn.
IterationOver == pc = "cands" /\ cand_idx > NbCandidates

\* Not expanded, not suppressed and not holding enough recommendations when
\* the iteration ranked the tally: by the recommendations stored for the
\* videos of the channel id, and by the list getChannelsWithEnoughRecos gave.
EligibleById(c) ==
  /\ c \notin iter_log.dne_at_eval
  /\ iter_log.recos_by_id[c] <= ENOUGH_RECOS

EligibleByList(c) ==
  /\ c \notin iter_log.dne_at_eval
  /\ c \notin channels_with_enough_recos

\* C6: in every iteration whose tally holds a channel that is not expanded,
\* not suppressed and not holding enough recommendations, the highest-ranked
\* such channel is expanded in that iteration.
C6_TopEligibleExpanded ==
  IterationOver =>
    \A i \in 1..Len(sorted_top_channels) :
       (/\ EligibleById(sorted_top_channels[i])
        /\ \A j \in 1..(i - 1) : ~EligibleById(sorted_top_channels[j]))
       => sorted_top_channels[i] \in iter_log.attempted

\* C6, amended: in the k-th iteration the highest-ranked channel that is not
\* in the do-not-expand set and not listed by getChannelsWithEnoughRecos is
\* handed to scrap_the_channel when it ranks among the first k channels.
C6_TopEligibleInSliceExpanded ==
  IterationOver =>
    \A i \in 1..Len(sorted_top_channels) :
       (/\ i <= nb_extra_channels
        /\ EligibleByList(sorted_top_channels[i])
        /\ \A j \in 1..(i - 1) : ~EligibleByList(sorted_top_channels[j]))
       => sorted_top_channels[i] \in iter_log.attempted

\* The highest-ranked eligible channel ranked second and was expanded.
C6_Witness ==
  /\ IterationOver
  /\ Len(sorted_top_channels) >= 2
  /\ nb_extra_channels >= 2
  /\ ~EligibleByList(sorted_top_channels[1])
  /\ EligibleByList(sorted_top_channels[2])
  /\ sorted_top_channels[2] \in iter_log.attempted
  /\ expand_count[sorted_top_channels[2]] = 1

\* C7: the loop expands no channel whose scrapped videos held more than
\* ENOUGH_RECOS recommendations when the iteration's candidates were evaluated.
C7_EnoughRecosNotExpanded ==
  \A c \in iter_log.attempted :
     expand_count[c] > 0 => iter_log.recos_by_id[c] <= ENOUGH_RECOS

\* C8: when the cached uploads of the channel hold at least required_recos
\* recommendations, getChannelToCountFromUploads scraps cached uploads only.
C8_CachedSupplyScrapsNothingNew ==
  (last_expansion.channel # "none" /\ last_expansion.nb_recos >= last_expansion.required)
    => Elems(last_expansion.videos_to_get) \subseteq Elems(last_expansion.cached)

\* The seed chanX has been expanded from an empty store, in the world where
\* its one upload x1 recommends y1 of chanY and z1 of chanZ.
C9_Case ==
  /\ world = WorldA
  /\ base_channels = <<"chanX">>
  /\ pc = "blacklist"
  /\ disk.scrapped_videos = <<>>
  /\ DOMAIN disk.all_channels = {}

\* C9: after that expansion the tally is {chanY: 1, chanZ: 1}, chanX is in
\* the do-not-expand set, chanY and chanZ are not.
C9_OneExpansionScenario ==
  C9_Case =>
    /\ Len(total_channel_stats) = 2
    /\ CountOf(total_channel_stats, "chanY") = 1
    /\ CountOf(total_channel_stats, "chanZ") = 1
    /\ "chanX" \in do_not_expand_channel_ids
    /\ "chanY" \notin do_not_expand_channel_ids
    /\ "chanZ" \notin do_not_expand_channel_ids

C9_Witness ==
  /\ C9_Case
  /\ expand_count["chanX"] = 1
  /\ last_expansion.videos_to_get = <<"x1">>
  /\ fetch_count["x1"] = 1

\* C10: no step of a run lowers the tally of any channel.
C10_TallyNeverDecreases ==
  [][\A c \in ChannelIds :
       CountOf(total_channel_stats', c) >= CountOf(total_channel_stats, c)]_vars

\* A tally value that two expansions built up.
C10_Witness ==
  /\ \E c \in ChannelIds : CountOf(total_channel_stats, c) >= 3
  /\ Cardinality({c \in ChannelIds : expand_count[c] > 0}) >= 3

\* C11: no call of getVideosFromYouTubeAPI, from make_video_to_chan_map,
\* scrap_the_video, getChannelForVideo or get_all_api_data, carries more
\* than API_BATCH video ids.
C11_BatchCeiling == api_max <= API_BATCH

\* A call carried a full batch, and the run went on to its final save.
C11_Witness ==
  /\ api_max = API_BATCH
  /\ pc = "done"
  /\ \E c \in ChannelIds : expand_count[c] > 0

\* The step that ends an iteration of the snowball loop.
EndsIteration == pc = "cands" /\ pc' = "loop"

\* C12: at the end of every iteration of the snowball loop save_videos
\* runs, however many videos the iteration fetched.
C12_SavedEveryIteration ==
  [][EndsIteration => save_count' = save_count + 1]_vars

\* C12, amended: the end of an iteration runs save_videos when the API
\* videos outnumber number_of_saved_videos by more than SAVE_EVERY, and does
\* not run it otherwise.
C12_SavedWhenEnoughNew ==
  [][EndsIteration =>
       IF NbApiVideos(Cur) > number_of_saved_videos + SAVE_EVERY
       THEN /\ save_count' = save_count + 1
            /\ disk'.scrapped_videos = scrapped_videos'
            /\ number_of_saved_videos' = NbApiVideos(Cur)
       ELSE /\ save_count' = save_count
            /\ disk' = disk
            /\ number_of_saved_videos' = number_of_saved_videos]_vars

\* An iteration that expanded a channel has ended with a save.
C12_Witness ==
  /\ pc = "loop"
  /\ iter_log.iteration >= 1
  /\ iter_log.attempted # {}
  /\ save_count = iter_log.saves_at_begin + 1
  /\ number_of_saved_videos > SAVE_EVERY
  /\ disk.scrapped_videos = scrapped_videos

\* The scrapped videos the store holds in memory and the last flush did
\* not write.
UnsavedRecords ==
  {scrapped_videos[i].id : i \in 1..Len(scrapped_videos)}
     \ {disk.scrapped_videos[i].id : i \in 1..Len(disk.scrapped_videos)}

\* The uploads of the channel whose expansion ran last.
UploadsInProgress ==
  IF last_expansion.channel = "none" THEN 0
  ELSE Len(world.uploads[last_expansion.channel])

\* C13: the scrapped records in memory that the last flush did not write
\* are at most SAVE_EVERY plus the uploads of the one channel being expanded.
C13_UnsavedBounded ==
  Cardinality(UnsavedRecords) <= SAVE_EVERY + UploadsInProgress

\* The keys of the records of a dictionary of the store.
KeysOf(f, d) ==
  IF f = "scrapped_videos" THEN {d[i].id : i \in DOMAIN d} ELSE DOMAIN d

\* C14: once the process has been killed during save_videos, each of the
\* four files still holds every record the last completed save_videos
\* wrote, and the store loaded at the restart holds them too.
C14_CrashKeepsFlushed ==
  /\ io.phase = "down" =>
        \A i \in 1..Len(Files) :
           KeysOf(Files[i], io.flushed[Files[i]])
              \subseteq KeysOf(Files[i], LoadFromFile(Files[i]))
  /\ io.phase = "restarted" =>
        \A i \in 1..Len(Files) :
           KeysOf(Files[i], io.flushed[Files[i]])
              \subseteq KeysOf(Files[i], MemoryOf(Files[i]))

\* ------------------------------------------------------------------------
\* C15
\* ------------------------------------------------------------------------
\* A seed whose profile or whose uploads playlist is never found.
NotFoundSeed ==
  \E i \in 1..Len(base_channels) :
     base_channels[i] \in world.noProfile \cup world.noPlaylist

\* A page was fetched whose embedded data does not parse.
MalformedPageFetched == \E v \in world.badJson : fetch_count[v] > 0

\* A scrapped video recommends an id the metadata API does not resolve.
UnresolvedRecoScrapped ==
  \E i \in 1..Len(scrapped_videos) :
     \E j \in 1..Len(scrapped_videos[i].recommendations) :
        scrapped_videos[i].recommendations[j] \in world.unresolvable

\* C15: a run of scrap_from_base that meets a channel or playlist never
\* found, a malformed page or a recommendation the metadata API does not
\* resolve ends with no uncaught exception: once the final save is done the
\* result file and the channel-share file are written.
C15_FaultyRunCompletes ==
  (NotFoundSeed \/ MalformedPageFetched \/ UnresolvedRecoScrapped)
     => (error = "none" /\ pc # "crashed")

\* ------------------------------------------------------------------------
\* C16
\* ------------------------------------------------------------------------
LastOf(log) == log[Len(log)]

\* C16: try_to_do never raises to its caller: after an exception of the
\* wrapped call it either sleeps and tries again or, for the playlist
\* error, returns None; it returns a value only when the wrapped call
\* returned that value or raised the playlist error.
C16_NeverRaises ==
  /\ attempt.status # "raised"
  /\ attempt.status = "sleeping" =>
        /\ LastOf(attempt.log).outcome = "raise"
        /\ ~IsPlaylistNotFound(LastOf(attempt.log).what)
  /\ attempt.status = "returned" =>
        \/ /\ LastOf(attempt.log).outcome = "return"
           /\ attempt.value = LastOf(attempt.log).what
        \/ /\ LastOf(attempt.log).outcome = "raise"
           /\ IsPlaylistNotFound(LastOf(attempt.log).what)
           /\ attempt.value = "None"
  /\ \A i \in 1..(Len(attempt.log) - 1) :
        /\ attempt.log[i].outcome = "raise"
        /\ ~IsPlaylistNotFound(attempt.log[i].what)
  /\ attempt.sleeps \in {Failures(attempt.log), Failures(attempt.log) - 1}

\* Two transient failures, then the wrapped call answers and try_to_do
\* returns the answer.
C16_Witness ==
  /\ attempt.status = "returned"
  /\ attempt.value = "response"
  /\ attempt.sleeps = 2
  /\ attempt.log[1].what = "quotaExceeded"
  /\ attempt.log[2].what = "ConnectionError"

\* ------------------------------------------------------------------------
\* C17 .. C20: the estimator
\* ------------------------------------------------------------------------
\* Video v is in the snapshot of the i-th date.
ObservedAt(v, i) == v \in DOMAIN est.scrapped_videos[i]

\* Video v is in the snapshot of the i-th date and its list there holds r.
RecommendsAt(v, i, r) ==
  /\ ObservedAt(v, i)
  /\ \E k \in 1..Len(est.scrapped_videos[i][v].recommendations) :
        est.scrapped_videos[i][v].recommendations[k] = r

ObservedCount(v) == Cardinality({i \in 1..Len(rdates) : ObservedAt(v, i)})

\* vA recommends vB at the first and at the third date, and its views go
\* from 100 to 150; the estimator has finished.
C17_Ends ==
  /\ est.phase = "estimated"
  /\ RecommendsAt("vA", 1, "vB") /\ est.scrapped_videos[1]["vA"].views = 100
  /\ RecommendsAt("vA", 3, "vB") /\ est.scrapped_videos[3]["vA"].views = 150

CreditsFromTo(v, r) == {c \in est.credits : c.v = v /\ c.reco = r}

RECURSIVE SumAmounts(_)
SumAmounts(credits) ==
  IF credits = {} THEN 0
  ELSE LET c == CHOOSE x \in credits : TRUE
       IN c.amount + SumAmounts(credits \ {c})

RECURSIVE SumShares(_)
SumShares(credits) ==
  IF credits = {} THEN 0
  ELSE LET c == CHOOSE x \in credits : TRUE
       IN c.share + SumShares(credits \ {c})

\* C18: a recommendation in the list of the earlier observation of an
\* interval and not in the list of the later one is credited nothing for
\* that interval: every attribution is to a recommendation both lists
\* hold, and the totals and the per-date estimates are the sums of these
\* attributions and of nothing else.
C18_NoCreditWithoutPersistence ==
  /\ \A c \in est.credits :
        /\ RecommendsAt(c.v, c.first + 1, c.reco)
        /\ RecommendsAt(c.v, c.second + 1, c.reco)
  /\ \A r \in EstVideos :
        /\ est.video_to_recos[r] = SumAmounts({c \in est.credits : c.reco = r})
        /\ \A i \in 1..Len(rdates) :
              est.video_to_recos_date[r][i] =
                SumShares({c \in est.credits :
                             c.reco = r /\ c.first + 1 <= i /\ i <= c.second + 1})

\* The views rose over an interval at whose start vC was recommended and
\* at whose end it was not, and vC has no estimate at all.
C18_Witness ==
  /\ est.phase = "estimated"
  /\ \E p \in est.pairs :
        /\ p.view_inc > 0
        /\ RecommendsAt(p.v, p.first + 1, "vC")
        /\ ~RecommendsAt(p.v, p.second + 1, "vC")
        /\ RecommendsAt(p.v, p.second + 1, "vB")
  /\ est.video_to_recos["vB"] > 0
  /\ est.video_to_recos["vC"] = 0
  /\ \A i \in 1..Len(rdates) : est.video_to_recos_date["vC"][i] = 0

\* C19: whatever the snapshots hold (views that fall, views not found),
\* every total estimate and every per-date estimate is at least 0.
C19_EstimatesNonNegative ==
  \A r \in EstVideos :
     /\ est.video_to_recos[r] >= 0
     /\ \A i \in 1..Len(rdates) : est.video_to_recos_date[r][i] >= 0

\* The views fell over an interval across which a recommendation persisted,
\* and another interval starts or ends at a view count that was not found.
C19_Witness ==
  /\ est.phase = "estimated"
  /\ \E p \in est.pairs :
        /\ p.view_inc < 0
        /\ \E r \in EstVideos : /\ RecommendsAt(p.v, p.first + 1, r)
                                /\ RecommendsAt(p.v, p.second + 1, r)
  /\ \E p \in est.pairs :
        \/ est.scrapped_videos[p.first + 1][p.v].views = -1
        \/ est.scrapped_videos[p.second + 1][p.v].views = -1

\* C20: when the estimator has finished, a video in fewer than two
\* snapshots has an estimate of 0.
C20_UnobservedHaveNoTraffic ==
  est.phase = "estimated" =>
     \A v \in EstVideos : ObservedCount(v) < 2 => est.video_to_recos[v] = 0

\* C20, amended: a video in fewer than two snapshots is the source of no
\* attribution: every interval compared joins two different snapshots that
\* both hold the video, and only such intervals credit anything.
C20_UnobservedCreditNothing ==
  /\ \A p \in est.pairs :
        /\ p.first < p.second
        /\ ObservedAt(p.v, p.first + 1)
        /\ ObservedAt(p.v, p.second + 1)
        /\ ObservedCount(p.v) >= 2
  /\ \A c \in est.credits :
        \E p \in est.pairs : p.v = c.v /\ p.first = c.first /\ p.second = c.second
  /\ (\A v \in EstVideos : ObservedCount(v) < 2) /\ est.phase # "loaded" =>
        \A r \in EstVideos : est.video_to_recos[r] = 0

\* vB is in one snapshot only, recommending vC, which gets nothing; vB
\* itself is credited by vA, which is in two.
C20_Witness ==
  /\ est.phase = "estimated"
  /\ ObservedCount("vB") = 1
  /\ est.video_to_recos["vC"] = 0
  /\ est.video_to_recos["vB"] > 0
  /\ \A c \in est.credits : c.v = "vA"

\* ------------------------------------------------------------------------
\* C21, C22
\* ------------------------------------------------------------------------
\* Some call of get_recommendations on v fetched the page of v.
PageFetchedFor(v) == \E i \in 1..Len(call_log[v]) : call_log[v][i].fetched

\* The store holds v with an empty list of recommendations.
RecordedEmpty(v) ==
  /\ HasEntry(scrapped_videos, v)
  /\ Entry(scrapped_videos, v).recommendations = <<>>

\* C21: with skip_older_videos set, a call of get_recommendations that
\* fetches the page of a video published more than a month ago returns the
\* empty list and leaves the video in the store of scrapped videos with an
\* empty list of recommendations.
C21_StaleRecordedEmpty ==
  \A v \in world.old :
     (skip_older_videos /\ PageFetchedFor(v)) =>
        /\ \A i \in 1..Len(call_log[v]) : call_log[v][i].recos = <<>>
        /\ RecordedEmpty(v)

\* C22: a call of get_recommendations that fetches a page whose embedded
\* data does not parse returns the empty list and leaves the video in the
\* store of scrapped videos with an empty list of recommendations.
C22_MalformedRecordedEmpty ==
  \A v \in world.badJson :
     PageFetchedFor(v) =>
        /\ \A i \in 1..Len(call_log[v]) : call_log[v][i].recos = <<>>
        /\ RecordedEmpty(v)

\* ------------------------------------------------------------------------
\* C23
\* ------------------------------------------------------------------------
\* C23: launch_scrapping with --noscrap set writes the result file from
\* the store as loaded and crawls nothing: scrap_from_base is not called,
\* no channel is expanded and no page is fetched.
C23_NoScrapNoCrawl ==
  (IsSet(launch.noscrap) /\ ~IsSet(launch.channelstats)) =>
     /\ launch.scrap_from_base_calls = 0
     /\ \A c \in ChannelIds : expand_count[c] = 0
     /\ \A v \in Videos : fetch_count[v] = 0
     /\ pc \in {"launch", "prepare", "returned"}
     /\ pc # "launch" => outputs.result # <<>>

\* ------------------------------------------------------------------------
\* C24
\* ------------------------------------------------------------------------
\* C24: get_recommendations asked for a video whose page cannot be reached
\* at any try ends all the same, and answers the empty list.
C24_UnreachableReturnsEmpty ==
  (page.status = "trying" /\ page.reach = "never")
     ~> (page.status = "returned" /\ page.recos = <<>>)

\* ------------------------------------------------------------------------
\* C25
\* ------------------------------------------------------------------------
\* try_to_do has returned what the wrapped call returned at its last try.
ReturnedTheAnswer ==
  /\ attempt.status = "returned"
  /\ LastOf(attempt.log).outcome = "return"
  /\ attempt.value = LastOf(attempt.log).what

\* The wrapped call raised the playlist error, which is no transient failure.
PlaylistErrorRaised ==
  \E i \in 1..Len(attempt.log) : IsPlaylistNotFound(attempt.log[i].what)

\* C25: when the failures of the wrapped call are transient, that is when
\* some later try succeeds, try_to_do ends up returning the answer of the
\* try that succeeded, however many tries failed before.
C25_TransientFailuresEndInAnswer ==
  (attempt.status = "trying") ~> (ReturnedTheAnswer \/ PlaylistErrorRaised)

\* As many failures as the backend may produce, then the answer.
C25_Witness ==
  /\ ReturnedTheAnswer
  /\ ~PlaylistErrorRaised
  /\ Failures(attempt.log) = MaxFailures
  /\ attempt.sleeps = MaxFailures

\* ------------------------------------------------------------------------
\* C26
\* ------------------------------------------------------------------------
\* The channels whose profile query has no items or whose uploads playlist
\* is reported as not found.
NotFoundChannels == world.noProfile \cup world.noPlaylist

\* scrap_the_channel has sent the profile query of a channel that is not found.
LookedUpNotFound(c) ==
  /\ c \in NotFoundChannels
  /\ backend_calls.channels_list[c] > 0

\* C26: when the profile query of a channel yields no items or its uploads
\* playlist is reported as not found, the step that sends the query leaves
\* the tally, the channel store and the video stores as they were, fetches
\* no page and expands nothing, sends each query once, and leaves the
\* channel in the do-not-expand set, where it stays: the query is never
\* sent a second time in the run.
C26_NotFoundAbandoned ==
  [][\A c \in NotFoundChannels :
        /\ backend_calls'.channels_list[c] # backend_calls.channels_list[c] =>
              /\ backend_calls.channels_list[c] = 0
              /\ backend_calls'.channels_list[c] = 1
              /\ backend_calls'.playlist_items[c] =
                    (IF c \in world.noProfile THEN 0 ELSE 1)
              /\ total_channel_stats' = total_channel_stats
              /\ channel_stats' = channel_stats
              /\ scrapped_videos' = scrapped_videos
              /\ api_videos' = api_videos
              /\ fetch_count' = fetch_count
              /\ expand_count' = expand_count
              /\ c \in do_not_expand_channel_ids'
        /\ LookedUpNotFound(c) =>
              /\ c \in do_not_expand_channel_ids
              /\ c \in do_not_expand_channel_ids'
              /\ expand_count[c] = 0]_vars

\* The run is over; a channel that is not found was looked up once, came
\* back as a candidate of the snowball loop and was passed over.
C26_Witness ==
  /\ pc = "done"
  /\ \E c \in NotFoundChannels :
        /\ LookedUpNotFound(c)
        /\ c \notin DOMAIN channel_stats
        /\ \E i \in 1..Len(sorted_top_channels) : sorted_top_channels[i] = c

\* ------------------------------------------------------------------------
\* C27
\* ------------------------------------------------------------------------
BaseSet == {base_channels[i] : i \in 1..Len(base_channels)}

\* The channel has a record in the channel store and neither is a base
\* channel nor features one.
FeaturesNoBase(c, stats) ==
  /\ c \in DOMAIN stats
  /\ c \notin BaseSet
  /\ stats[c].featuredChannelsUrls \cap BaseSet = {}

\* C27: with the must-feature-a-base-channel filter on, a channel with a
\* record that is not a base channel and features none is never expanded;
\* the step that hands it to scrap_the_channel fetches no page, leaves the
\* tally as it was and puts the channel in the do-not-expand set, which it
\* never leaves; a candidate with a record that is a base channel or
\* features one is expanded in the step that hands it over.
C27_FeaturingFilter ==
  [][only_scrap_chans_featuring_base =>
       \A c \in ChannelIds :
          /\ FeaturesNoBase(c, channel_stats) => expand_count[c] = 0
          /\ FeaturesNoBase(c, channel_stats') => expand_count'[c] = 0
          /\ c \in do_not_expand_channel_ids => c \in do_not_expand_channel_ids'
          /\ (pc = "cands" /\ c \in iter_log'.attempted \ iter_log.attempted) =>
                /\ c \in do_not_expand_channel_ids'
                /\ FeaturesNoBase(c, channel_stats') =>
                      /\ expand_count' = expand_count
                      /\ fetch_count' = fetch_count
                      /\ scrapped_videos' = scrapped_videos
                      /\ total_channel_stats' = total_channel_stats
                /\ (c \in DOMAIN channel_stats' /\ ~FeaturesNoBase(c, channel_stats')) =>
                      /\ expand_count'[c] = expand_count[c] + 1
                      /\ last_expansion'.channel = c]_vars

\* The run is over with the filter on: one candidate was looked up and
\* turned away by the filter, another one features a base channel and was
\* expanded.
C27_Witness ==
  /\ pc = "done"
  /\ only_scrap_chans_featuring_base
  /\ \E c \in ChannelIds :
        /\ FeaturesNoBase(c, channel_stats)
        /\ backend_calls.channels_list[c] = 1
        /\ c \in do_not_expand_channel_ids
  /\ \E d \in ChannelIds \ BaseSet :
        /\ d \in DOMAIN channel_stats
        /\ channel_stats[d].featuredChannelsUrls \cap BaseSet # {}
        /\ expand_count[d] = 1

\* ------------------------------------------------------------------------
\* C28
\* ------------------------------------------------------------------------
\* The channel of the call of scrap_the_channel this step makes.
CalledChannel == chan_calls'[Len(chan_calls')]

\* C28: a call of scrap_the_channel on a channel that is in the
\* do-not-expand set, or made while NO_SCRAPPING is on, changes nothing:
\* the tally, the channel store, the video stores, the files and the
\* do-not-expand set are as before, and no request is sent and no page
\* fetched.
C28_SuppressedCallChangesNothing ==
  [][(chan_calls' # chan_calls
        /\ (CalledChannel \in do_not_expand_channel_ids \/ NO_SCRAPPING)) =>
       /\ total_channel_stats' = total_channel_stats
       /\ channel_stats' = channel_stats
       /\ api_videos' = api_videos
       /\ scrapped_videos' = scrapped_videos
       /\ video_to_chan_map' = video_to_chan_map
       /\ disk' = disk
       /\ do_not_expand_channel_ids' = do_not_expand_channel_ids
       /\ backend_calls' = backend_calls
       /\ fetch_count' = fetch_count
       /\ expand_count' = expand_count]_vars

\* A channel was expanded by the first call and handed to scrap_the_channel
\* a second time.
C28_Witness ==
  /\ ~NO_SCRAPPING
  /\ Len(chan_calls) >= 2
  /\ chan_calls[1] = chan_calls[2]
  /\ expand_count[chan_calls[1]] = 1
  /\ total_channel_stats # <<>>

\* ------------------------------------------------------------------------
\* C29
\* ------------------------------------------------------------------------
\* The recommendations the store holds for a video, none when it has no record.
StoredRecos(scrapped, v) ==
  IF HasEntry(scrapped, v) THEN Entry(scrapped, v).recommendations ELSE <<>>

\* The metadata stores know the channel of the video.
Resolved(api, map, r) == r \in (DOMAIN api) \cup (DOMAIN map)

ChannelOfReco(api, map, r) == IF r \in DOMAIN api THEN api[r] ELSE map[r]

\* The occurrences, in the recommendation lists of the videos expanded, of
\* videos that resolve to the channel ch: pairs of positions.
Occurrences(scrapped, api, map, videos, ch) ==
  { p \in (1..Len(videos)) \X (1..RECOS_PER_PAGE) :
      /\ p[2] <= Len(StoredRecos(scrapped, videos[p[1]]))
      /\ LET r == StoredRecos(scrapped, videos[p[1]])[p[2]]
         IN /\ Resolved(api, map, r)
            /\ ChannelOfReco(api, map, r) = ch }

\* C29: in the step that expands a channel, the tally of every channel
\* grows by the number of occurrences, in the recommendation lists of the
\* videos expanded, of videos that resolve to it; a recommendation that no
\* metadata call resolves is counted for nobody, and the recommendations
\* after it in the list and the videos after it in the expansion are counted.
C29_UnresolvedOmittedOthersCounted ==
  [][(\E c \in ChannelIds : expand_count'[c] = expand_count[c] + 1) =>
       /\ \A i \in 1..Len(total_channel_stats') :
             total_channel_stats'[i].id \in ChannelIds
       /\ \A ch \in ChannelIds :
             CountOf(total_channel_stats', ch) =
                CountOf(total_channel_stats, ch)
                + Cardinality(Occurrences(scrapped_videos', api_videos',
                                          video_to_chan_map',
                                          last_expansion'.videos_to_get, ch))]_vars

\* A video expanded last lists a video no metadata call resolved, and lists
\* one and the same resolved video before it and after it; the channel of
\* that video is in the tally.
C29_Witness ==
  \E i \in 1..Len(last_expansion.videos_to_get) :
     LET recos == StoredRecos(scrapped_videos, last_expansion.videos_to_get[i])
     IN \E j, k, l \in 1..Len(recos) :
           /\ j < k /\ k < l
           /\ recos[j] = recos[l]
           /\ ~Resolved(api_videos, video_to_chan_map, recos[k])
           /\ Resolved(api_videos, video_to_chan_map, recos[j])
           /\ CountOf(total_channel_stats,
                      ChannelOfReco(api_videos, video_to_chan_map, recos[j])) >= 2

\* ------------------------------------------------------------------------
\* C30
\* ------------------------------------------------------------------------
\* The positions, in the sequence of videos handed to scrap_the_video, of
\* the videos that had a record in the store before the step, and of those
\* that had none.
CachedBefore(v) == HasEntry(scrapped_videos, v)

\* C30: the step that runs getChannelToCountFromUploads on a channel hands
\* to scrap_the_video every upload of the channel's list that the store
\* held before, and every one of them ahead of any upload the store did not
\* hold, whatever required_recos is.
C30_CachedUploadsFirst ==
  [][\A c \in ChannelIds : expand_count'[c] = expand_count[c] + 1 =>
        LET items == channel_stats'[c].uploads
            expanded == last_expansion'.expanded
        IN /\ last_expansion'.channel = c
           /\ \A i \in 1..Len(items) :
                 CachedBefore(items[i]) =>
                    \E k \in 1..Len(expanded) : expanded[k] = items[i]
           /\ \A k, l \in 1..Len(expanded) :
                 (CachedBefore(expanded[k]) /\ ~CachedBefore(expanded[l])) => k < l
           /\ \A k \in 1..Len(expanded) :
                 \E i \in 1..Len(items) : expanded[k] = items[i]]_vars

\* The last expansion took a cached upload that sits after an uncached one
\* in the upload list, and expanded the two the other way round.
C30_Witness ==
  /\ last_expansion.channel # "none"
  /\ LET items == channel_stats[last_expansion.channel].uploads
         expanded == last_expansion.expanded
     IN \E i, j \in 1..Len(items) : \E k, l \in 1..Len(expanded) :
           /\ i < j /\ k < l
           /\ expanded[k] = items[j]
           /\ expanded[l] = items[i]
           /\ items[j] \in Elems(last_expansion.cached)
           /\ items[i] \notin Elems(last_expansion.cached)

\* ------------------------------------------------------------------------
\* C31
\* ------------------------------------------------------------------------
\* The place of a channel in the tally: the order of first insertion.
PlaceInTally(tally, c) == CHOOSE i \in 1..Len(tally) : tally[i].id = c

\* C31: the ranking an iteration computes lists every channel of the tally
\* once, by descending tally value, and channels of equal value in the
\* order of their first insertion into the tally.
C31_RankingDescendingStable ==
  [][(pc = "loop" /\ pc' = "cands") =>
       /\ Len(sorted_top_channels') = Len(total_channel_stats)
       /\ \A i \in 1..Len(total_channel_stats) :
             \E a \in 1..Len(sorted_top_channels') :
                sorted_top_channels'[a] = total_channel_stats[i].id
       /\ \A a, b \in 1..Len(sorted_top_channels') :
             a < b =>
               LET ca == sorted_top_channels'[a]
                   cb == sorted_top_channels'[b]
               IN \/ CountOf(total_channel_stats, ca) > CountOf(total_channel_stats, cb)
                  \/ /\ CountOf(total_channel_stats, ca) = CountOf(total_channel_stats, cb)
                     /\ PlaceInTally(total_channel_stats, ca)
                          < PlaceInTally(total_channel_stats, cb)]_vars

\* An iteration has just ranked a tally in which two channels have equal
\* values and a channel inserted later outranks one inserted earlier.
C31_Witness ==
  /\ pc = "cands"
  /\ cand_idx = 1
  /\ iter_log.attempted = {}
  /\ \E a, b \in 1..Len(sorted_top_channels) :
        /\ a < b
        /\ CountOf(total_channel_stats, sorted_top_channels[a])
             = CountOf(total_channel_stats, sorted_top_channels[b])
  /\ \E a, b \in 1..Len(sorted_top_channels) :
        /\ a < b
        /\ PlaceInTally(total_channel_stats, sorted_top_channels[a])
             > PlaceInTally(total_channel_stats, sorted_top_channels[b])

\* ------------------------------------------------------------------------
\* C32
\* ------------------------------------------------------------------------
\* The attributions of one comparison of two observations.
CreditsOfPair(p) ==
  {c \in est.credits : c.v = p.v /\ c.first = p.first /\ c.second = p.second}

\* The ids in the lists of both observations of the pair.
PersistingIds(p) ==
  {r \in EstVideos : /\ RecommendsAt(p.v, p.first + 1, r)
                     /\ RecommendsAt(p.v, p.second + 1, r)}

\* C32: for every comparison of two consecutive observations of a video
\* over which the views rose by D, every id in both lists is credited D
\* for it, and the k ids in both lists are credited k * D together.
C32_EachPersistingIdCreditedD ==
  \A p \in est.pairs :
     (p.view_inc > 0 /\ est.phase \in {"first", "estimated"}) =>
        /\ \A r \in PersistingIds(p) :
              SumAmounts({c \in CreditsOfPair(p) : c.reco = r}) = p.view_inc
        /\ SumAmounts(CreditsOfPair(p)) = Cardinality(PersistingIds(p)) * p.view_inc

\* ------------------------------------------------------------------------
\* C33
\* ------------------------------------------------------------------------
\* The number of snapshot dates from the first to the second observation of
\* an attribution, both included.
DatesSpanned(c) == 1 + c.second - c.first

\* C33: every attribution of a view increase D over an interval of n
\* snapshot dates gives each of the n dates one and the same share, and the
\* n shares add up to D.
C33_SharesSumToIncrease ==
  \A c \in est.credits :
     /\ c.amount > 0
     /\ DatesSpanned(c) * c.share = c.amount

\* ------------------------------------------------------------------------
\* C34
\* ------------------------------------------------------------------------
\* The view counts the files hold for the video at the n newest dates.
CountsAtNewest(n) ==
  [i \in 1..(IF n < Len(recent.dates) THEN n ELSE Len(recent.dates)) |->
     ObservedViews(recent.at[i])]

\* The value C34 states, for a window of n dates that starts at dates[n]:
\* the greatest count of the window for a video published on or after its
\* first date, else the greatest count less the least positive one.
ValueOverWindow(n) ==
  IF NotBefore(recent.pub_date, invert_date(recent.dates[n]))
  THEN MaxOf(CountsAtNewest(n))
  ELSE MaxOf(CountsAtNewest(n)) - MinPositive(CountsAtNewest(n))

\* C34: a video given a recent_views value over the last dayz days has the
\* greatest view count observed in the window when it was published within
\* the window, otherwise that count less the least positive count observed
\* in the window, and the value is not negative; the window is read either
\* as the dayz newest dates, whose counts the code takes, or as the dates
\* from dates[dayz] on, which the code takes for the publish date.
C34_RecentViewsOverWindow ==
  (recent.phase = "done" /\ recent.recent_views # <<>>) =>
     /\ recent.recent_views[1] >= 0
     /\ \/ recent.recent_views[1] = ValueOverWindow(recent.dayz)
        \/ recent.recent_views[1] = ValueOverWindow(recent.dayz + 1)

\* ------------------------------------------------------------------------
\* C35
\* ------------------------------------------------------------------------
\* The channels at the first k places of the ranking.
FirstRanked(ranking, k) ==
  {ranking[i] : i \in 1..(IF k < Len(ranking) THEN k ELSE Len(ranking))}

\* C35: in the k-th snowball iteration every channel handed to
\* scrap_the_channel, and so every channel expanded, is at one of the first
\* k places of the ranking computed when the iteration began, and while the
\* iteration goes through its candidates the ranking stays as it was
\* computed, whatever the expansions add to the tally.
C35_OnlyFirstKOfStartRanking ==
  [][(pc = "cands" /\ pc' = "cands") =>
       /\ sorted_top_channels' = sorted_top_channels
       /\ iter_log.iteration = nb_extra_channels
       /\ nb_extra_channels' = nb_extra_channels
       /\ \A c \in ChannelIds :
             (\/ expand_count'[c] # expand_count[c]
              \/ c \in iter_log'.attempted \ iter_log.attempted
              \/ c \in do_not_expand_channel_ids' \ do_not_expand_channel_ids) =>
                c \in FirstRanked(sorted_top_channels, nb_extra_channels)]_vars

\* An iteration after the first has expanded a candidate and the tally now
\* ranks differently from the ranking the iteration goes by, which lists
\* more channels than the iteration may take.
C35_Witness ==
  /\ pc = "cands"
  /\ nb_extra_channels >= 2
  /\ iter_log.attempted # {}
  /\ \E c \in iter_log.attempted : expand_count[c] = 1
  /\ sorted_top_channels # SortedTopChannels(total_channel_stats)
  /\ Len(sorted_top_channels) > nb_extra_channels

\* ------------------------------------------------------------------------
\* C36
\* ------------------------------------------------------------------------
\* max(0, max_channels - number of seeds)
IterationsDue ==
  IF max_channels > Len(base_channels) THEN max_channels - Len(base_channels) ELSE 0

\* C36: once the loop over the seeds is over every seed has been handed to
\* scrap_the_channel, whatever max_channels is and with the filter never
\* applied: it is in the do-not-expand set, its profile was asked for unless
\* the channel store had it, and if it has a record it was expanded, also
\* when it features no base channel. The snowball loop then runs
\* max(0, max_channels - number of seeds) iterations, no more and no fewer,
\* whether or not the ranking has a candidate left.
C36_SeedsAllThenExactIterations ==
  /\ pc \in {"blacklist", "loop", "cands", "final", "done", "written", "crashed"} =>
        \A i \in 1..Len(base_channels) :
           LET seed == base_channels[i]
           IN /\ seed \in do_not_expand_channel_ids
              /\ seed \in DOMAIN channel_stats => expand_count[seed] = 1
              /\ seed \notin DOMAIN channel_stats =>
                    backend_calls.channels_list[seed] = 1
  /\ nb_extra_channels <= IterationsDue
  /\ iter_log.iteration = nb_extra_channels
  /\ pc \in {"final", "done", "written", "crashed"} =>
        nb_extra_channels = IterationsDue

\* The run is over: there were more seeds than max_channels allows, both
\* were expanded and no iteration was run.
C36_Witness ==
  /\ pc = "done"
  /\ Len(base_channels) = 2
  /\ max_channels = 1
  /\ \A i \in 1..Len(base_channels) : expand_count[base_channels[i]] = 1
  /\ nb_extra_channels = 0

\* ------------------------------------------------------------------------
\* C37
\* ------------------------------------------------------------------------
\* The ids of the videos the store holds, in the order of the store.
StoredIds == [i \in 1..Len(scrapped_videos) |-> scrapped_videos[i].id]

\* C37: at every point of a run the tally value of every channel is at
\* most the number of entries, in the recommendation lists of the videos
\* the store holds, of videos that resolve to that channel.
C37_TallyWithinStoredRecos ==
  \A ch \in ChannelIds :
     CountOf(total_channel_stats, ch)
        <= Cardinality(Occurrences(scrapped_videos, api_videos, video_to_chan_map,
                                   StoredIds, ch))

\* The run is over; a channel's tally value is the very number of stored
\* entries that resolve to it, another's is below it, and the store holds an
\* entry that resolves to nobody.
C37_Witness ==
  /\ pc = "done"
  /\ \E ch \in ChannelIds :
        /\ CountOf(total_channel_stats, ch) > 0
        /\ CountOf(total_channel_stats, ch)
             = Cardinality(Occurrences(scrapped_videos, api_videos, video_to_chan_map,
                                       StoredIds, ch))
  /\ \E ch \in ChannelIds :
        CountOf(total_channel_stats, ch)
           < Cardinality(Occurrences(scrapped_videos, api_videos, video_to_chan_map,
                                     StoredIds, ch))
  /\ \E i \in 1..Len(scrapped_videos) :
        \E j \in 1..Len(scrapped_videos[i].recommendations) :
           ~Resolved(api_videos, video_to_chan_map, scrapped_videos[i].recommendations[j])

\* ------------------------------------------------------------------------
\* C38
\* ------------------------------------------------------------------------
\* v is observed at the indices first < second and at no index in between
\* (indices counted from 0, as the code counts them).
ConsecutiveObservations(v, first, second) ==
  /\ first < second
  /\ ObservedAt(v, first + 1)
  /\ ObservedAt(v, second + 1)
  /\ \A k \in first + 1 .. second - 1 : ~ObservedAt(v, k + 1)

\* The pairs of indices the scan of v has compared, and how often.
EvaluatedOnlyConsecutiveOnce(v) ==
  \A first, second \in 0..Len(rdates) - 1 :
     est.evaluated[v][first][second]
        <= IF ConsecutiveObservations(v, first, second) THEN 1 ELSE 0

EvaluatedEveryConsecutiveOnce(v) ==
  \A first, second \in 0..Len(rdates) - 1 :
     est.evaluated[v][first][second]
        = IF ConsecutiveObservations(v, first, second) THEN 1 ELSE 0

\* C38: the scan of the estimator ends for every video, and when it has
\* ended it has compared every pair of consecutive observations of every
\* video exactly once and no other pair; on the way no pair is compared
\* twice and no pair that is not one of consecutive observations.
C38_ScanEndsWithConsecutivePairsOnce ==
  /\ <>(est.phase = "estimated")
  /\ [](est.phase \in {"scan", "first", "second", "estimated"} =>
          \A v \in EstVideos : EvaluatedOnlyConsecutiveOnce(v))
  /\ [](est.phase = "estimated" =>
          \A v \in EstVideos : EvaluatedEveryConsecutiveOnce(v))

\* The scan has ended; vA was observed at the first and the last date only
\* and this one pair was compared once, vB was observed at the three dates
\* and its two pairs were compared once each.
C38_Witness ==
  /\ est.phase = "estimated"
  /\ ConsecutiveObservations("vA", 0, 2)
  /\ est.evaluated["vA"][0][2] = 1
  /\ ObservedCount("vB") = 3
  /\ est.evaluated["vB"][0][1] = 1
  /\ est.evaluated["vB"][1][2] = 1
  /\ est.evaluated["vB"][0][2] = 0

\* ------------------------------------------------------------------------
\* C39
\* ------------------------------------------------------------------------
\* The view count of v in the snapshot at the index i (counted from 0).
ViewsAtIndex(v, i) == est.scrapped_videos[i + 1][v].views

\* C39: every amount credited for an interval is at most the view count
\* the recommending video has at the later of the two observations.
C39_CreditAtMostLaterViews ==
  \A c \in est.credits : c.amount <= ViewsAtIndex(c.v, c.second)

\* ------------------------------------------------------------------------
\* C40
\* ------------------------------------------------------------------------
\* The total of the recommendations the store holds for the uploads of
\* items[i..] that it holds, every upload counted once.
RECURSIVE CachedRecos(_, _)
CachedRecos(items, i) ==
  IF i > Len(items) THEN 0
  ELSE (IF /\ CachedBefore(items[i])
           /\ \A j \in 1..i - 1 : items[j] # items[i]
        THEN Len(StoredRecos(scrapped_videos, items[i]))
        ELSE 0) + CachedRecos(items, i + 1)

\* max(1, floor(max(0, required_recos - cachedRecos) / ESTIMATED_RECOS_PER_VIDEO))
UncachedAllowed(cachedRecos) ==
  LET missing == IF required_recos > cachedRecos THEN required_recos - cachedRecos ELSE 0
      quotient == missing \div ESTIMATED_RECOS_PER_VIDEO
  IN IF quotient > 1 THEN quotient ELSE 1

\* C40: the step that runs getChannelToCountFromUploads on a channel hands
\* to scrap_the_video at most
\* max(1, floor(max(0, required_recos - cachedRecos) / ESTIMATED_RECOS_PER_VIDEO))
\* uploads that the store did not hold before the step, cachedRecos being
\* the recommendations the store held for the channel's uploads.
C40_UncachedExpandedBounded ==
  [][\A c \in ChannelIds : expand_count'[c] = expand_count[c] + 1 =>
        LET items == channel_stats'[c].uploads
            expanded == last_expansion'.expanded
        IN Cardinality({k \in 1..Len(expanded) : ~CachedBefore(expanded[k])})
              <= UncachedAllowed(CachedRecos(items, 1))]_vars

\* The last expansion found in the store as many recommendations as
\* required, or more, and still took one upload that the store did not
\* hold, the first of the upload list: the bound is 1 and it is reached.
C40_Witness ==
  /\ last_expansion.channel # "none"
  /\ last_expansion.cached # <<>>
  /\ last_expansion.nb_recos >= required_recos
  /\ {k \in 1..Len(last_expansion.expanded) :
         last_expansion.expanded[k] \notin Elems(last_expansion.cached)}
       = {Len(last_expansion.expanded)}
  /\ last_expansion.expanded[Len(last_expansion.expanded)]
       = channel_stats[last_expansion.channel].uploads[1]

====
